---- MODULE Spec2Model ----
(***************************************************************************)
(* Model of the EPCIS event processor (src/processor.py) and of its twelve *)
(* misuse detectors (src/detectors.py) over the event vocabulary of        *)
(* src/models.py.                                                          *)
(*                                                                         *)
(* Representation:                                                         *)
(*  - Python None is the string "None" for optional strings; an            *)
(*    Optional[Alert] is a sequence of zero or one alert.                  *)
(*  - A datetime is [t |-> minutes on the time line, aware |-> whether it  *)
(*    carries a tzinfo].  Python raises TypeError when an aware and a      *)
(*    naive datetime are ordered or subtracted; the parser of              *)
(*    src/processor.py produces both kinds.  Times stay far from           *)
(*    datetime.min / datetime.max.                                         *)
(*  - A dict is a function when only its keys and values matter, and a     *)
(*    sequence of entries when the code iterates it (insertion order).     *)
(*  - Rule 5's float average is the exact rational [n, d] (d a power of    *)
(*    ten); within the bounds used here the float comparison of the code   *)
(*    and the exact comparison agree.                                      *)
(*  - alert_id, the string "R<rule>_<event id>", is the pair               *)
(*    <<rule, event id>>; the rule name and the description text of an     *)
(*    alert are left out.                                                  *)
(***************************************************************************)
EXTENDS Integers, Sequences, FiniteSets, TLC

\* The six fields of the EventProcessor, and three history variables: the events
\* handed to the processor so far (submitted), the last operation with what it
\* did (call), and the processor as it was before that operation (prev).
\* peer is a second EventProcessor instance of the same process: its fields
\* (P), the events handed to it, and its fields before the last operation.
VARIABLES epc_history, epc_current_state, context, detectors, alerts,
          processed_events, submitted, call, prev, peer

vars == <<epc_history, epc_current_state, context, detectors, alerts,
          processed_events, submitted, call, prev, peer>>

None == "None"

\* ------------------------------------------------------------ vocabulary
DAMAGED == "urn:epcglobal:cbv:disp:damaged"
SELLABLE_ACCESSIBLE == "urn:epcglobal:cbv:disp:sellable_accessible"
SELLABLE_NOT_ACCESSIBLE == "urn:epcglobal:cbv:disp:sellable_not_accessible"
IN_TRANSIT == "urn:epcglobal:cbv:disp:in_transit"
RETAIL_SOLD == "urn:epcglobal:cbv:disp:retail_sold"
ACTIVE == "urn:epcglobal:cbv:disp:active"
NON_SELLABLE_OTHER == "urn:epcglobal:cbv:disp:non_sellable_other"
ONLINE_SOLD == "http://nedapretail.com/disp/online_sold"

INSPECTING == "urn:epcglobal:cbv:bizstep:inspecting"
SHIPPING == "urn:epcglobal:cbv:bizstep:shipping"
RECEIVING == "urn:epcglobal:cbv:bizstep:receiving"
RETAIL_SELLING == "urn:epcglobal:cbv:bizstep:retail_selling"
CYCLE_COUNTING == "urn:epcglobal:cbv:bizstep:cycle_counting"

CRITICAL == "Critical"
HIGH == "High"
MEDIUM == "Medium"

INVOICE_TYPE == "urn:epcglobal:cbv:btt:inv"
OWNING_PARTY == "urn:epcglobal:cbv:sdt:owning_party"

\* ------------------------------------------------------------ time
Time(t, aware) == [t |-> t, aware |-> aware]

\* Ordering or subtracting an aware and a naive datetime raises TypeError.
Comparable(a, b) == a.aware = b.aware

\* now - timedelta(minutes = m)
Minus(a, m) == [t |-> a.t - m, aware |-> a.aware]

\* (a - b) in minutes, for comparable a and b
Diff(a, b) == a.t - b.t

\* ------------------------------------------------------------ maps
EmptyMap == [k \in {} |-> None]

MapSet(m, k, v) == [x \in (DOMAIN m) \cup {k} |-> IF x = k THEN v ELSE m[x]]

Range(s) == {s[i] : i \in DOMAIN s}

\* ------------------------------------------------------------ models.py
is_damaged_disp(value) == value = DAMAGED

is_sold_disp(value) == value \in {RETAIL_SOLD, ONLINE_SOLD}

get_primary_epc(event) ==
    IF event.epc_list # <<>> THEN event.epc_list[1] ELSE None

get_location(event) == event.biz_location

get_disposition(event) == event.disposition

is_damaged(event) ==
    IF event.disposition # None THEN is_damaged_disp(event.disposition) ELSE FALSE

is_sold(event) ==
    \/ event.biz_step = RETAIL_SELLING
    \/ (event.disposition # None /\ is_sold_disp(event.disposition))

is_inspection(event) == event.biz_step = INSPECTING

is_shipment(event) == event.biz_step = SHIPPING

is_receiving(event) == event.biz_step = RECEIVING

\* Variant of Alert: the id is built from the source event id of the alert.
AlertFromSource(rule_id, severity, event, epc, location, details, event_id) ==
    [alert_id |-> <<rule_id, event_id>>,
     rule_id |-> rule_id,
     severity |-> severity,
     timestamp |-> event.event_time,
     epc |-> epc,
     location |-> location,
     details |-> details,
     resolved |-> FALSE,
     resolved_at |-> None,
     event_id |-> event_id]

\* Variant of Alert: the id names the rule only.
AlertOfRule(rule_id, severity, event, epc, location, details, event_id) ==
    [alert_id |-> <<rule_id, 0>>,
     rule_id |-> rule_id,
     severity |-> severity,
     timestamp |-> event.event_time,
     epc |-> epc,
     location |-> location,
     details |-> details,
     resolved |-> FALSE,
     resolved_at |-> None,
     event_id |-> event_id]

\* Alert(...): resolved and resolved_at take the dataclass defaults.
Alert(rule_id, severity, event, epc, location, details, event_id) ==
    [alert_id |-> <<rule_id, event.id>>,
     rule_id |-> rule_id,
     severity |-> severity,
     timestamp |-> event.event_time,
     epc |-> epc,
     location |-> location,
     details |-> details,
     resolved |-> FALSE,
     resolved_at |-> None,
     event_id |-> event_id]

\* What a detect call hands back: the detector's state after the call, the
\* alert (zero or one), and whether the call raised.
Result(st, alert, fault) == [st |-> st, alert |-> alert, fault |-> fault]

NoAlert == <<>>

\* ------------------------------------------------------------ rule 1
\* Variant of Rule1_detect: only the first destination entry tells a return.
Rule1_detect_first_destination(event, ctx, st) ==
    IF /\ is_shipment(event) /\ is_damaged(event) /\ event.action = "ADD"
       /\ get_primary_epc(event) # None
       /\ get_location(event) # None
       /\ ~(/\ event.destination_list # <<>>
             /\ event.destination_list[1].type = OWNING_PARTY)
    THEN Result(st,
                <<Alert(1, HIGH, event, get_primary_epc(event), get_location(event),
                        [biz_step |-> event.biz_step,
                         disposition |-> event.disposition],
                        event.id)>>,
                FALSE)
    ELSE Result(st, NoAlert, FALSE)

Rule1_detect(event, ctx, st) ==
    IF /\ is_shipment(event) /\ is_damaged(event) /\ event.action = "ADD"
       /\ get_primary_epc(event) # None
       /\ get_location(event) # None
       /\ ~(\E i \in DOMAIN event.destination_list :
               event.destination_list[i].type = OWNING_PARTY)
    THEN Result(st,
                <<Alert(1, HIGH, event, get_primary_epc(event), get_location(event),
                        [biz_step |-> event.biz_step,
                         disposition |-> event.disposition],
                        event.id)>>,
                FALSE)
    ELSE Result(st, NoAlert, FALSE)

\* ------------------------------------------------------------ rule 2
Rule2_detect(event, ctx, st) ==
    IF /\ is_receiving(event) /\ is_damaged(event)
       /\ get_primary_epc(event) # None
       /\ get_location(event) # None
       /\ ctx.previous_disposition # None
       /\ is_damaged_disp(ctx.previous_disposition)
    THEN Result(st,
                <<Alert(2, MEDIUM, event, get_primary_epc(event), get_location(event),
                        [previous_disposition |-> ctx.previous_disposition,
                         current_disposition |-> event.disposition,
                         biz_step |-> event.biz_step],
                        event.id)>>,
                FALSE)
    ELSE Result(st, NoAlert, FALSE)

\* ------------------------------------------------------------ rule 3
\* The default configuration selects the damaged disposition, whose business
\* step in DISPOSITION_TO_BIZSTEP is inspecting.
target_biz_steps == {INSPECTING}

released_statuses == {SELLABLE_ACCESSIBLE, SELLABLE_NOT_ACCESSIBLE, ACTIVE}

Rule3_detect(event, ctx, st) ==
    IF /\ target_biz_steps # {}
       /\ event.biz_step # None
       /\ event.biz_step \in target_biz_steps
       /\ get_disposition(event) # None
       /\ get_disposition(event) \in released_statuses
       /\ get_primary_epc(event) # None
       /\ get_location(event) # None
    THEN Result(st,
                <<Alert(3, HIGH, event, get_primary_epc(event), get_location(event),
                        [disposition |-> event.disposition,
                         biz_step |-> event.biz_step,
                         is_bulk_operation |-> ctx.is_bulk_operation,
                         action |-> event.action],
                        event.id)>>,
                FALSE)
    ELSE Result(st, NoAlert, FALSE)

\* ------------------------------------------------------------ rule 4
consecutive_count_threshold == 2

\* Variant of Rule4_track: a DELETE event of the item ends its tracking.
Rule4_track_evict(event, st) ==
    IF event.action = "DELETE"
    THEN [st EXCEPT !.damaged_items =
             [k \in DOMAIN @ \ {get_primary_epc(event)} |-> @[k]]]
    ELSE IF is_damaged(event) /\ event.action = "ADD"
    THEN [st EXCEPT !.damaged_items =
             MapSet(st.damaged_items, get_primary_epc(event),
                    [damaged_since |-> event.event_time,
                     location |-> get_location(event),
                     count_not_observed |-> 0])]
    ELSE st

\* st.damaged_items: epc -> [damaged_since, location, count_not_observed]
Rule4_track(event, st) ==
    IF is_damaged(event) /\ event.action = "ADD"
    THEN [st EXCEPT !.damaged_items =
             MapSet(st.damaged_items, get_primary_epc(event),
                    [damaged_since |-> event.event_time,
                     location |-> get_location(event),
                     count_not_observed |-> 0])]
    ELSE st

\* Variant of Rule4_miss: the alert starts the counter anew.
Rule4_miss_restart(event, st, primary_epc, item_info, n) ==
    Result([st EXCEPT !.damaged_items[primary_epc].count_not_observed =
                          IF n >= consecutive_count_threshold THEN 0 ELSE n],
           IF n >= consecutive_count_threshold
           THEN <<Alert(4, MEDIUM, event, primary_epc, item_info.location,
                        [damaged_since |-> item_info.damaged_since,
                         consecutive_counts_missing |-> n],
                        event.id)>>
           ELSE NoAlert,
           FALSE)

\* The miss branch: the counter of the item has become n.
Rule4_miss(event, st, primary_epc, item_info, n) ==
    Result([st EXCEPT !.damaged_items[primary_epc].count_not_observed = n],
           IF n >= consecutive_count_threshold
           THEN <<Alert(4, MEDIUM, event, primary_epc, item_info.location,
                        [damaged_since |-> item_info.damaged_since,
                         consecutive_counts_missing |-> n],
                        event.id)>>
           ELSE NoAlert,
           FALSE)

\* Variant of Rule4_seen: an observation at the location leaves the counter.
Rule4_seen_keep(st, primary_epc) == Result(st, NoAlert, FALSE)

\* 'Item was observed, reset counter'
Rule4_seen(st, primary_epc) ==
    Result([st EXCEPT !.damaged_items[primary_epc].count_not_observed = 0],
           NoAlert, FALSE)

\* 'Check during inventory counts', on the state after the tracking.
Rule4_observe(event, st, primary_epc, location) ==
    IF /\ event.action = "OBSERVE"
       /\ location # None
       /\ primary_epc \in DOMAIN st.damaged_items
    THEN IF location = st.damaged_items[primary_epc].location
         THEN Rule4_seen(st, primary_epc)
         ELSE Rule4_miss(event, st, primary_epc, st.damaged_items[primary_epc],
                         st.damaged_items[primary_epc].count_not_observed + 1)
    ELSE Result(st, NoAlert, FALSE)

Rule4_detect(event, ctx, st) ==
    IF get_primary_epc(event) = None
    THEN Result(st, NoAlert, FALSE)
    ELSE Rule4_observe(event, Rule4_track(event, st), get_primary_epc(event),
                       get_location(event))

\* ------------------------------------------------------------ rule 5
threshold_multiplier == 2

\* window_hours = 24, in minutes
window_minutes == 1440

\* 'ts > cutoff' of the window's list comprehension
NewerThan(ts, cutoff) == ts.t > cutoff.t

\* [ts for ts in window if ts > cutoff]
RECURSIVE KeepNewer(_, _)
KeepNewer(window, cutoff) ==
    IF window = <<>> THEN <<>>
    ELSE IF NewerThan(Head(window), cutoff)
    THEN <<Head(window)>> \o KeepNewer(Tail(window), cutoff)
    ELSE KeepNewer(Tail(window), cutoff)

\* n copies of x appended to s: for _ in range(n): s.append(x)
RECURSIVE AppendTimes(_, _, _)
AppendTimes(s, x, n) == IF n = 0 THEN s ELSE AppendTimes(Append(s, x), x, n - 1)

\* Variant of MovingAverage: the weights exchanged, 0.1 for the old average.
MovingAverageSwapped(avg, current_count) ==
    [n |-> avg.n + 9 * current_count * avg.d, d |-> 10 * avg.d]

\* historical_avg * 0.9 + current_count * 0.1
MovingAverage(avg, current_count) ==
    [n |-> 9 * avg.n + current_count * avg.d, d |-> 10 * avg.d]

\* Variant of ExceedsThreshold: a multiplier of three.
ExceedsTriple(current_count, avg) == current_count * avg.d > avg.n * 3

\* current_count > historical_avg * threshold_multiplier
ExceedsThreshold(current_count, avg) ==
    current_count * avg.d > avg.n * threshold_multiplier

\* self.location_assignments[location], a defaultdict(list)
Window(st, location) ==
    IF location \in DOMAIN st.location_assignments
    THEN st.location_assignments[location] ELSE <<>>

\* Variant of Rule5_evaluate without the seeding: a location without an
\* average is evaluated against an average of zero.
Rule5_unseeded(event, st, location, current_count) ==
    IF current_count > 0
    THEN Result(st,
                <<Alert(5, MEDIUM, event, get_primary_epc(event), location,
                        [current_count |-> current_count,
                         historical_average |-> [n |-> 0, d |-> 1],
                         window_hours |-> 24,
                         num_items_in_event |-> Len(event.epc_list)],
                        event.id)>>,
                FALSE)
    ELSE Result(st, NoAlert, FALSE)

\* From 'Get or calculate historical average' on: st is the state with the
\* window stored, current_count the length of the window.
Rule5_evaluate(event, st, location, current_count) ==
    IF location \notin DOMAIN st.location_historical_avg
    THEN Result([st EXCEPT !.location_historical_avg =
                    MapSet(@, location, [n |-> current_count, d |-> 1])],
                NoAlert, FALSE)
    ELSE IF ExceedsThreshold(current_count, st.location_historical_avg[location])
    THEN Result(st,
                <<Alert(5, MEDIUM, event,
                        IF get_primary_epc(event) # None
                        THEN get_primary_epc(event) ELSE "multiple",
                        location,
                        [current_count |-> current_count,
                         historical_average |-> st.location_historical_avg[location],
                         threshold |->
                             [n |-> st.location_historical_avg[location].n
                                        * threshold_multiplier,
                              d |-> st.location_historical_avg[location].d],
                         window_hours |-> 24,
                         num_items_in_event |-> Len(event.epc_list)],
                        event.id)>>,
                FALSE)
    ELSE Result([st EXCEPT !.location_historical_avg[location] =
                    MovingAverage(@, current_count)],
                NoAlert, FALSE)

\* The cleaned window with the event's assignments added is stored, then the
\* count is evaluated.
Rule5_store(event, st, location, window) ==
    Rule5_evaluate(event,
                   [st EXCEPT !.location_assignments = MapSet(@, location, window)],
                   location, Len(window))

\* 'Clean old entries outside window' raises on a timestamp of the other kind
\* before anything is assigned.
Rule5_window(event, st, location, old, cutoff) ==
    IF \E i \in DOMAIN old : ~Comparable(old[i], cutoff)
    THEN Result(st, NoAlert, TRUE)
    ELSE Rule5_store(event, st, location,
                     AppendTimes(KeepNewer(old, cutoff), event.event_time,
                                 Len(event.epc_list)))

\* st.location_assignments: location -> list of datetimes
\* st.location_historical_avg: location -> average
Rule5_detect(event, ctx, st) ==
    IF ~(is_inspection(event) /\ is_damaged(event) /\ event.action = "ADD")
    THEN Result(st, NoAlert, FALSE)
    ELSE IF get_location(event) = None
    THEN Result(st, NoAlert, FALSE)
    ELSE Rule5_window(event, st, get_location(event),
                      Window(st, get_location(event)),
                      Minus(event.event_time, window_minutes))

\* ------------------------------------------------------------ rule 6
\* Variant of FirstIn: the last epc of the list that is in the set.
RECURSIVE LastIn(_, _)
LastIn(epc_list, set) ==
    IF epc_list = <<>> THEN <<>>
    ELSE IF LastIn(Tail(epc_list), set) # <<>> THEN LastIn(Tail(epc_list), set)
    ELSE IF Head(epc_list) \in set THEN <<Head(epc_list)>>
    ELSE <<>>

\* First epc of the list that is in the set, as a sequence of zero or one.
RECURSIVE FirstIn(_, _)
FirstIn(epc_list, set) ==
    IF epc_list = <<>> THEN <<>>
    ELSE IF Head(epc_list) \in set THEN <<Head(epc_list)>>
    ELSE FirstIn(Tail(epc_list), set)

\* Variant of Rule6_add: only the primary epc is added.
Rule6_add_primary(event, st) ==
    IF is_damaged(event) /\ event.action = "ADD" /\ get_primary_epc(event) # None
    THEN [st EXCEPT !.damaged_items = @ \cup {get_primary_epc(event)}]
    ELSE st

\* st.damaged_items: set of epcs
Rule6_add(event, st) ==
    IF is_damaged(event) /\ event.action = "ADD"
    THEN [st EXCEPT !.damaged_items = @ \cup Range(event.epc_list)]
    ELSE st

Rule6_discard(event, ctx, st) ==
    IF /\ ctx.previous_disposition # None
       /\ ~is_damaged_disp(ctx.previous_disposition)
       /\ get_primary_epc(event) # None
    THEN [st EXCEPT !.damaged_items = @ \ {get_primary_epc(event)}]
    ELSE st

Rule6_track(event, ctx, st) == Rule6_discard(event, ctx, Rule6_add(event, st))

\* 'Check for sales', hit the first listed epc in the set (zero or one).
Rule6_sale(event, ctx, st, hit) ==
    IF hit # <<>>
    THEN Result(st,
                <<Alert(6, CRITICAL, event, hit[1],
                        IF get_location(event) # None THEN get_location(event) ELSE "unknown",
                        [transaction_id |-> ctx.transaction_id,
                         biz_step |-> event.biz_step,
                         disposition |-> event.disposition],
                        event.id)>>,
                FALSE)
    ELSE Result(st, NoAlert, FALSE)

Rule6_check(event, ctx, st) ==
    Rule6_sale(event, ctx, st,
               IF is_sold(event) THEN FirstIn(event.epc_list, st.damaged_items) ELSE <<>>)

Rule6_detect(event, ctx, st) == Rule6_check(event, ctx, Rule6_track(event, ctx, st))

\* ------------------------------------------------------------ rules 7, 8
\* The two sets, cut to the dispositions of the vocabulary above.
incorrect_dispositions_sales_floor ==
    {SELLABLE_NOT_ACCESSIBLE, RETAIL_SOLD, IN_TRANSIT, NON_SELLABLE_OTHER, DAMAGED,
     ONLINE_SOLD}

incorrect_dispositions_stockroom == {SELLABLE_ACCESSIBLE, RETAIL_SOLD}

\* location_mapper.get_store_info(location).get("sublocation_type"): the
\* dictionary get_store_info returns has no such key.
sublocation_type(location_mapper, location) == None

\* Variant of HasMapper: the mapper is taken to be there.
MapperAssumed(ctx) == TRUE

\* 'if not location_mapper: return None' on context.get("location_mapper")
HasMapper(ctx) == ctx.location_mapper # None

\* After the check of the mapper: get_store_info is called on it, which raises
\* AttributeError on None.
Rule7_lookup(event, ctx, st) ==
    IF ctx.location_mapper = None
    THEN Result(st, NoAlert, TRUE)
    ELSE IF /\ sublocation_type(ctx.location_mapper, get_location(event)) = "sales_floor"
            /\ get_primary_epc(event) # None
    THEN Result(st,
                <<Alert(7, MEDIUM, event, get_primary_epc(event), get_location(event),
                        [disposition |-> event.disposition,
                         sublocation_type |-> "sales_floor",
                         biz_step |-> event.biz_step],
                        event.id)>>,
                FALSE)
    ELSE Result(st, NoAlert, FALSE)

Rule7_detect(event, ctx, st) ==
    IF /\ get_disposition(event) # None
       /\ get_disposition(event) \in incorrect_dispositions_sales_floor
       /\ get_location(event) # None
       /\ HasMapper(ctx)
    THEN Rule7_lookup(event, ctx, st)
    ELSE Result(st, NoAlert, FALSE)

Rule8_lookup(event, ctx, st) ==
    IF ctx.location_mapper = None
    THEN Result(st, NoAlert, TRUE)
    ELSE IF /\ sublocation_type(ctx.location_mapper, get_location(event)) = "stockroom"
            /\ get_primary_epc(event) # None
    THEN Result(st,
                <<Alert(8, MEDIUM, event, get_primary_epc(event), get_location(event),
                        [disposition |-> event.disposition,
                         sublocation_type |-> "stockroom",
                         biz_step |-> event.biz_step],
                        event.id)>>,
                FALSE)
    ELSE Result(st, NoAlert, FALSE)

Rule8_detect(event, ctx, st) ==
    IF /\ get_disposition(event) # None
       /\ get_disposition(event) \in incorrect_dispositions_stockroom
       /\ get_location(event) # None
       /\ HasMapper(ctx)
    THEN Rule8_lookup(event, ctx, st)
    ELSE Result(st, NoAlert, FALSE)

\* ------------------------------------------------------------ rule 9
\* Variant of Rule9_track: a sale marks its items sold whatever its action.
Rule9_track_any(event, st) ==
    IF is_sold(event)
    THEN [st EXCEPT !.sold_items = @ \cup Range(event.epc_list)]
    ELSE st

\* st.sold_items: set of epcs
Rule9_track(event, st) ==
    IF is_sold(event) /\ event.action = "ADD"
    THEN [st EXCEPT !.sold_items = @ \cup Range(event.epc_list)]
    ELSE st

\* 'Check if sold item is marked as damaged', hit the first listed epc in the
\* sold set (zero or one).
Rule9_returned(event, st, hit) ==
    IF hit # <<>>
    THEN Result(st,
                <<Alert(9, HIGH, event, hit[1],
                        IF get_location(event) # None THEN get_location(event) ELSE "unknown",
                        [previous_status |-> "Sold",
                         requires_return_processing |-> TRUE,
                         biz_step |-> event.biz_step],
                        event.id)>>,
                FALSE)
    ELSE Result(st, NoAlert, FALSE)

Rule9_check(event, st) ==
    Rule9_returned(event, st,
                   IF is_inspection(event) /\ is_damaged(event) /\ event.action = "ADD"
                   THEN FirstIn(event.epc_list, st.sold_items) ELSE <<>>)

Rule9_detect(event, ctx, st) == Rule9_check(event, Rule9_track(event, st))

\* ------------------------------------------------------------ rule 10
\* 30 minute window
timeout_minutes == 30

\* st.damaged_events: the dict epc -> damaged event, as the sequence of its
\* entries [epc, ev] in insertion order.
DictKeys(d) == {d[i].epc : i \in DOMAIN d}

\* d[epc] = ev: an existing key keeps its place, a new key goes last.
DictSet(d, epc, ev) ==
    IF epc \in DictKeys(d)
    THEN [i \in DOMAIN d |-> IF d[i].epc = epc THEN [epc |-> epc, ev |-> ev] ELSE d[i]]
    ELSE Append(d, [epc |-> epc, ev |-> ev])

\* del d[epc]
RECURSIVE DictDel(_, _)
DictDel(d, epc) ==
    IF d = <<>> THEN <<>>
    ELSE IF Head(d).epc = epc THEN Tail(d)
    ELSE <<Head(d)>> \o DictDel(Tail(d), epc)

RECURSIVE DictSetAll(_, _, _)
DictSetAll(d, epc_list, ev) ==
    IF epc_list = <<>> THEN d
    ELSE DictSetAll(DictSet(d, Head(epc_list), ev), Tail(epc_list), ev)

RECURSIVE DictDelAll(_, _)
DictDelAll(d, epc_list) ==
    IF epc_list = <<>> THEN d
    ELSE DictDelAll(DictDel(d, Head(epc_list)), Tail(epc_list))

Rule10_add(event, st) ==
    IF is_inspection(event) /\ is_damaged(event) /\ event.action = "ADD"
    THEN [st EXCEPT !.damaged_events = DictSetAll(@, event.epc_list, event)]
    ELSE st

\* Variant of Rule10_delete: a DELETE clears nothing.
Rule10_keep(event, st) == st

Rule10_delete(event, st) ==
    IF event.action = "DELETE"
    THEN [st EXCEPT !.damaged_events = DictDelAll(@, event.epc_list)]
    ELSE st

Rule10_track(event, st) == Rule10_delete(event, Rule10_add(event, st))

\* One entry of the scan: subtracting a datetime of the other kind raises.
Rule10_alert(event, st, epc, damaged_event) ==
    Result(st,
           <<Alert(10, MEDIUM, event, epc,
                   IF get_location(damaged_event) # None
                   THEN get_location(damaged_event) ELSE "unknown",
                   [damaged_assigned_at |-> damaged_event.event_time,
                    time_since_assignment_minutes |->
                        Diff(event.event_time, damaged_event.event_time)],
                   damaged_event.id)>>,
           FALSE)

\* The scan 'for epc, damaged_event in list(self.damaged_events.items())':
\* the first stale entry decides.
RECURSIVE Rule10_scan(_, _, _)
Rule10_scan(event, st, entries) ==
    IF entries = <<>> THEN Result(st, NoAlert, FALSE)
    ELSE IF ~Comparable(event.event_time, Head(entries).ev.event_time)
    THEN Result(st, NoAlert, TRUE)
    ELSE IF Diff(event.event_time, Head(entries).ev.event_time) > timeout_minutes
    THEN Rule10_alert(event, st, Head(entries).epc, Head(entries).ev)
    ELSE Rule10_scan(event, st, Tail(entries))

\* Variant of Rule10_check: the entries are scanned newest first.
Rule10_check_newest(event, st) ==
    Rule10_scan(event, st,
                [i \in DOMAIN st.damaged_events |->
                    st.damaged_events[Len(st.damaged_events) + 1 - i]])

Rule10_check(event, st) == Rule10_scan(event, st, st.damaged_events)

Rule10_detect(event, ctx, st) == Rule10_check(event, Rule10_track(event, st))

\* ------------------------------------------------------------ rule 11
\* timedelta(hours=24) and timedelta(days=1), in minutes
retention_minutes == 1440

RECURSIVE MapSetAll(_, _, _)
MapSetAll(m, epc_list, v) ==
    IF epc_list = <<>> THEN m
    ELSE MapSetAll(MapSet(m, Head(epc_list), v), Tail(epc_list), v)

\* st.recently_damaged: epc -> damaged timestamp
Rule11_track(event, st) ==
    IF is_inspection(event) /\ is_damaged(event) /\ event.action = "ADD"
    THEN [st EXCEPT !.recently_damaged = MapSetAll(@, event.epc_list, event.event_time)]
    ELSE st

\* 'Clean old entries': the dict comprehension keeps ts > cutoff, and raises
\* on a timestamp of the other kind before anything is assigned.
Rule11_prune(st, cutoff) ==
    IF \E k \in DOMAIN st.recently_damaged : ~Comparable(st.recently_damaged[k], cutoff)
    THEN Result(st, NoAlert, TRUE)
    ELSE Result([st EXCEPT !.recently_damaged =
                    [k \in {x \in DOMAIN @ : NewerThan(@[x], cutoff)} |-> @[k]]],
                NoAlert, FALSE)

Rule11_clean(event, st) == Rule11_prune(st, Minus(event.event_time, retention_minutes))

Rule11_alert(event, st, epc, damaged_time) ==
    Result(st,
           <<Alert(11, CRITICAL, event, epc,
                   IF get_location(event) # None THEN get_location(event) ELSE "unknown",
                   [damaged_at |-> damaged_time,
                    sold_at |-> event.event_time,
                    time_between_minutes |-> Diff(event.event_time, damaged_time),
                    biz_step |-> event.biz_step],
                   event.id)>>,
           FALSE)

\* Variant of Recent: a sale exactly 24 hours after the marking counts.
RecentInclusive(time_diff) == time_diff <= retention_minutes

\* time_diff < timedelta(hours=24)
Recent(time_diff) == time_diff < retention_minutes

\* The sale loop over event.epc_list, then the cleaning.
RECURSIVE Rule11_sale(_, _, _)
Rule11_sale(event, st, epc_list) ==
    IF epc_list = <<>> THEN Rule11_clean(event, st)
    ELSE IF Head(epc_list) \notin DOMAIN st.recently_damaged
    THEN Rule11_sale(event, st, Tail(epc_list))
    ELSE IF ~Comparable(event.event_time, st.recently_damaged[Head(epc_list)])
    THEN Result(st, NoAlert, TRUE)
    ELSE IF Recent(Diff(event.event_time, st.recently_damaged[Head(epc_list)]))
    THEN Rule11_alert(event, st, Head(epc_list), st.recently_damaged[Head(epc_list)])
    ELSE Rule11_sale(event, st, Tail(epc_list))

Rule11_check(event, st) ==
    IF is_sold(event)
    THEN Rule11_sale(event, st, event.epc_list)
    ELSE Rule11_clean(event, st)

Rule11_detect(event, ctx, st) == Rule11_check(event, Rule11_track(event, st))

\* ------------------------------------------------------------ rule 12
Rule12_detect(event, ctx, st) ==
    IF /\ get_disposition(event) = RETAIL_SOLD
       /\ event.biz_step = CYCLE_COUNTING
       /\ get_primary_epc(event) # None
       /\ get_location(event) # None
    THEN Result(st,
                <<Alert(12, HIGH, event, get_primary_epc(event), get_location(event),
                        [disposition |-> event.disposition,
                         biz_step |-> event.biz_step,
                         action |-> event.action],
                        event.id)>>,
                FALSE)
    ELSE Result(st, NoAlert, FALSE)

\* ------------------------------------------------------------ detector set
\* get_all_detectors(): the rules in their declared order.
get_all_detectors == <<1, 2, 3, 4, 5, 6, 7, 8, 9, 10, 11, 12>>

\* The private state the constructors give the stateful detectors.
InitDetectors ==
    [r4 |-> [damaged_items |-> EmptyMap],
     r5 |-> [location_assignments |-> EmptyMap, location_historical_avg |-> EmptyMap],
     r6 |-> [damaged_items |-> {}],
     r9 |-> [sold_items |-> {}],
     r10 |-> [damaged_events |-> <<>>],
     r11 |-> [recently_damaged |-> EmptyMap]]

\* A detect call seen from the detector set: the set with the state of the
\* detector replaced, the alert, the fault.
Stateless(dets, r) == Result(dets, r.alert, r.fault)

In4(dets, r) == Result([dets EXCEPT !.r4 = r.st], r.alert, r.fault)

In5(dets, r) == Result([dets EXCEPT !.r5 = r.st], r.alert, r.fault)

In6(dets, r) == Result([dets EXCEPT !.r6 = r.st], r.alert, r.fault)

In9(dets, r) == Result([dets EXCEPT !.r9 = r.st], r.alert, r.fault)

In10(dets, r) == Result([dets EXCEPT !.r10 = r.st], r.alert, r.fault)

In11(dets, r) == Result([dets EXCEPT !.r11 = r.st], r.alert, r.fault)

\* detector.detect(event, self.context) for the detector of one rule.
detect(rule, event, ctx, dets) ==
    CASE rule = 1 -> Stateless(dets, Rule1_detect(event, ctx, None))
      [] rule = 2 -> Stateless(dets, Rule2_detect(event, ctx, None))
      [] rule = 3 -> Stateless(dets, Rule3_detect(event, ctx, None))
      [] rule = 4 -> In4(dets, Rule4_detect(event, ctx, dets.r4))
      [] rule = 5 -> In5(dets, Rule5_detect(event, ctx, dets.r5))
      [] rule = 6 -> In6(dets, Rule6_detect(event, ctx, dets.r6))
      [] rule = 7 -> Stateless(dets, Rule7_detect(event, ctx, None))
      [] rule = 8 -> Stateless(dets, Rule8_detect(event, ctx, None))
      [] rule = 9 -> In9(dets, Rule9_detect(event, ctx, dets.r9))
      [] rule = 10 -> In10(dets, Rule10_detect(event, ctx, dets.r10))
      [] rule = 11 -> In11(dets, Rule11_detect(event, ctx, dets.r11))
      [] rule = 12 -> Stateless(dets, Rule12_detect(event, ctx, None))

\* ------------------------------------------------------------ processor
\* The state of one EventProcessor.
Processor(h, s, c, d, a, p) ==
    [epc_history |-> h, epc_current_state |-> s, context |-> c,
     detectors |-> d, alerts |-> a, processed_events |-> p]

\* self.context starts empty; every read is a get(), which gives None for a
\* key that was never set.  Nothing ever sets location_mapper.
InitContext ==
    [is_bulk_operation |-> FALSE, transaction_id |-> None,
     previous_disposition |-> None, epc |-> None, location_mapper |-> None]

\* EventProcessor.__init__
InitProcessor ==
    Processor(EmptyMap, EmptyMap, InitContext, InitDetectors, <<>>, <<>>)

\* The state stored for one identifier.
ItemState(event) ==
    [disposition |-> event.disposition,
     location |-> get_location(event),
     biz_step |-> event.biz_step,
     event_time |-> event.event_time,
     event_id |-> event.id]

\* Variant of UpdateCurrentState: the state with the newest event time wins.
UpdateIfNewer(state, epc, event) ==
    IF event.disposition = None THEN state
    ELSE IF epc \in DOMAIN state /\ state[epc].event_time.t > event.event_time.t
    THEN state
    ELSE MapSet(state, epc, ItemState(event))

\* if event.disposition: self.epc_current_state[epc] = {...}
UpdateCurrentState(state, epc, event) ==
    IF event.disposition # None THEN MapSet(state, epc, ItemState(event)) ELSE state

\* self.epc_history[epc], a defaultdict(list)
History(history, epc) == IF epc \in DOMAIN history THEN history[epc] ELSE <<>>

\* One turn of the loop of _update_epc_history, on [history, state].
TrackEpc(hs, event, epc) ==
    [history |-> MapSet(hs.history, epc, Append(History(hs.history, epc), event)),
     state |-> UpdateCurrentState(hs.state, epc, event)]

\* _update_epc_history: the loop over event.epc_list, on [history, state].
RECURSIVE update_epc_history(_, _, _)
update_epc_history(hs, event, epc_list) ==
    IF epc_list = <<>> THEN hs
    ELSE update_epc_history(TrackEpc(hs, event, Head(epc_list)), event, Tail(epc_list))

\* Variant of get_previous_disposition: a stored state of the same event time
\* counts as previous.
get_previous_disposition_or_same(state, epc, current_event) ==
    IF epc \notin DOMAIN state
    THEN [value |-> None, raised |-> FALSE]
    ELSE IF ~Comparable(state[epc].event_time, current_event.event_time)
    THEN [value |-> None, raised |-> TRUE]
    ELSE IF state[epc].event_time.t <= current_event.event_time.t
    THEN [value |-> state[epc].disposition, raised |-> FALSE]
    ELSE [value |-> None, raised |-> FALSE]

\* get_previous_disposition: [value, raised].  Ordering the stored event time
\* and the event's raises when they are of different kinds.
get_previous_disposition(state, epc, current_event) ==
    IF epc \notin DOMAIN state
    THEN [value |-> None, raised |-> FALSE]
    ELSE IF ~Comparable(state[epc].event_time, current_event.event_time)
    THEN [value |-> None, raised |-> TRUE]
    ELSE IF state[epc].event_time.t < current_event.event_time.t
    THEN [value |-> state[epc].disposition, raised |-> FALSE]
    ELSE [value |-> None, raised |-> FALSE]

\* Value of the first entry of the list whose type is the invoice type, as a
\* sequence of zero or one.
RECURSIVE FirstInvoice(_)
FirstInvoice(biz_transaction_list) ==
    IF biz_transaction_list = <<>> THEN <<>>
    ELSE IF Head(biz_transaction_list).type = INVOICE_TYPE
    THEN <<Head(biz_transaction_list).value>>
    ELSE FirstInvoice(Tail(biz_transaction_list))

\* self.context["is_bulk_operation"] = len(event.epc_list) > 1
SetBulk(ctx, event) == [ctx EXCEPT !.is_bulk_operation = Len(event.epc_list) > 1]

\* 'Store transaction info for sales', inv the invoice found (zero or one).
SetTransaction(ctx, inv) ==
    IF inv # <<>> THEN [ctx EXCEPT !.transaction_id = inv[1]] ELSE ctx

\* 'Add previous disposition info to context', prev_disp what
\* get_previous_disposition gave.
SetPrevious(ctx, primary_epc, prev_disp) ==
    IF prev_disp.raised
    THEN [context |-> ctx, raised |-> TRUE]
    ELSE [context |-> [ctx EXCEPT !.previous_disposition = prev_disp.value,
                                  !.epc = primary_epc],
          raised |-> FALSE]

ReadPrevious(ctx, state, event) ==
    IF get_primary_epc(event) = None
    THEN [context |-> ctx, raised |-> FALSE]
    ELSE SetPrevious(ctx, get_primary_epc(event),
                     get_previous_disposition(state, get_primary_epc(event), event))

\* _update_context: [context, raised].  The keys set before the read of the
\* previous disposition stay set when that read raises.
update_context(ctx, state, event) ==
    ReadPrevious(SetTransaction(SetBulk(ctx, event),
                                IF is_sold(event)
                                THEN FirstInvoice(event.biz_transaction_list)
                                ELSE <<>>),
                 state, event)

\* Variant of ExceptionCaught: nothing is caught.
NotCaught(rule) == FALSE

\* 'except Exception' of the detector loop catches whatever a detector raises.
ExceptionCaught(rule) == TRUE

\* Variant of Record: a new alert goes to the front of self.alerts.
RecordNewestFirst(acc, rule, r) ==
    IF r.fault
    THEN [acc EXCEPT !.detectors = r.st,
                     !.invoked = Append(@, rule),
                     !.faulted = Append(@, rule),
                     !.aborted = ~ExceptionCaught(rule)]
    ELSE [acc EXCEPT !.detectors = r.st,
                     !.invoked = Append(@, rule),
                     !.alerts = @ \o r.alert,
                     !.log = r.alert \o @]

\* One turn of 'for detector in self.detectors', r what detect gave.  acc holds
\* the detector set, the local list alerts, self.alerts (log), the rules
\* invoked so far, the rules that raised, and whether an exception left the
\* loop.
Record(acc, rule, r) ==
    IF r.fault
    THEN [acc EXCEPT !.detectors = r.st,
                     !.invoked = Append(@, rule),
                     !.faulted = Append(@, rule),
                     !.aborted = ~ExceptionCaught(rule)]
    ELSE [acc EXCEPT !.detectors = r.st,
                     !.invoked = Append(@, rule),
                     !.alerts = @ \o r.alert,
                     !.log = @ \o r.alert]

\* The keys of the context a detect call of the rule reads.
Reads(rule) ==
    CASE rule = 2 -> <<"previous_disposition">>
      [] rule = 3 -> <<"is_bulk_operation">>
      [] rule = 6 -> <<"previous_disposition", "transaction_id">>
      [] rule \in {7, 8} -> <<"location_mapper">>
      [] OTHER -> <<>>

\* Variant of ContextGet: context[key], which on the defaultdict stores the
\* default, an empty dict, under a key that is not there.
ContextItem(ctx, key) ==
    IF key # "is_bulk_operation" /\ ctx[key] = None
    THEN [ctx EXCEPT ![key] = "{}"] ELSE ctx

\* context.get(key): the read leaves the dictionary as it is.
ContextGet(ctx, key) == ctx

\* self.context, the one dictionary every detector is handed, after the reads
\* of a detect call; no detector assigns to it.
RECURSIVE AfterReads(_, _)
AfterReads(ctx, keys) ==
    IF keys = <<>> THEN ctx
    ELSE AfterReads(ContextGet(ctx, Head(keys)), Tail(keys))

\* The detect call of the rule was handed acc.context, and leaves it as its
\* reads leave it.
Handed(acc, rule) ==
    [acc EXCEPT !.handed = Append(@, acc.context),
                !.context = AfterReads(@, Reads(rule))]

detector_step(acc, rule, event) ==
    Handed(Record(acc, rule, detect(rule, event, acc.context, acc.detectors)), rule)

RECURSIVE run_detectors(_, _, _)
run_detectors(acc, rules, event) ==
    IF rules = <<>> \/ acc.aborted THEN acc
    ELSE run_detectors(detector_step(acc, Head(rules), event), Tail(rules), event)

\* What one call of process_event did: the processor after it (P), whether it
\* returned or raised, the list it returned, the context _update_context left
\* (ctx), the context each detector was handed, the rules invoked in order and
\* the rules that raised.
Outcome(P, event, outcome, returned, ctx, handed, invoked, faulted) ==
    [P |-> P, event |-> event, outcome |-> outcome, returned |-> returned,
     ctx |-> ctx, handed |-> handed, invoked |-> invoked, faulted |-> faulted]

\* The accumulator the detector loop starts from.
LoopStart(P, ctx) ==
    [detectors |-> P.detectors, context |-> ctx, handed |-> <<>>,
     alerts |-> <<>>, log |-> P.alerts,
     invoked |-> <<>>, faulted |-> <<>>, aborted |-> FALSE]

\* After the detector loop: 'Store processed event' and the return, unless an
\* exception left the loop.
Finish(P, event, hs, ctx, acc) ==
    IF acc.aborted
    THEN Outcome(Processor(hs.history, hs.state, acc.context, acc.detectors,
                           acc.log, P.processed_events),
                 event, "raised", <<>>, ctx, acc.handed, acc.invoked, acc.faulted)
    ELSE Outcome(Processor(hs.history, hs.state, acc.context, acc.detectors,
                           acc.log, Append(P.processed_events, event)),
                 event, "returned", acc.alerts, ctx, acc.handed, acc.invoked,
                 acc.faulted)

\* After _update_context (uc): an exception of it leaves process_event with
\* the trackers and the context already written.
Detect(P, event, hs, uc) ==
    IF uc.raised
    THEN Outcome(Processor(hs.history, hs.state, uc.context, P.detectors,
                           P.alerts, P.processed_events),
                 event, "raised", <<>>, uc.context, <<>>, <<>>, <<>>)
    ELSE Finish(P, event, hs, uc.context,
                run_detectors(LoopStart(P, uc.context), get_all_detectors, event))

\* After _update_epc_history (hs).
Contextualize(P, event, hs) ==
    Detect(P, event, hs, update_context(P.context, hs.state, event))

process_event(P, event) ==
    Contextualize(P, event,
                  update_epc_history([history |-> P.epc_history,
                                      state |-> P.epc_current_state],
                                     event, event.epc_list))

\* process_events: [P, outcome, returned, steps], steps the Outcome of each
\* process_event call made, in order.  An exception of process_event leaves
\* the loop and the call.
\* Variant of Extend: the alerts of the newest call go first.
ExtendNewestFirst(run, o) ==
    [P |-> o.P,
     outcome |-> o.outcome,
     returned |-> IF o.outcome = "raised" THEN <<>> ELSE o.returned \o run.returned,
     steps |-> Append(run.steps, o)]

\* all_alerts.extend(alerts) after one process_event call (o) of the loop.
Extend(run, o) ==
    [P |-> o.P,
     outcome |-> o.outcome,
     returned |-> IF o.outcome = "raised" THEN <<>> ELSE run.returned \o o.returned,
     steps |-> Append(run.steps, o)]

RECURSIVE process_events_loop(_, _)
process_events_loop(run, events) ==
    IF events = <<>> \/ run.outcome = "raised" THEN run
    ELSE process_events_loop(Extend(run, process_event(run.P, Head(events))),
                             Tail(events))

process_events(P, events) ==
    process_events_loop([P |-> P, outcome |-> "returned", returned |-> <<>>,
                         steps |-> <<>>], events)

\* ------------------------------------------------------------ alert log
\* Variant of get_alerts_by_severity: the matching alerts, newest first.
RECURSIVE BySeverityNewestFirst(_, _)
BySeverityNewestFirst(log, severity) ==
    IF log = <<>> THEN <<>>
    ELSE IF Head(log).severity = severity
    THEN BySeverityNewestFirst(Tail(log), severity) \o <<Head(log)>>
    ELSE BySeverityNewestFirst(Tail(log), severity)

\* [a for a in self.alerts if a.severity.value == severity]
RECURSIVE get_alerts_by_severity(_, _)
get_alerts_by_severity(log, severity) ==
    IF log = <<>> THEN <<>>
    ELSE IF Head(log).severity = severity
    THEN <<Head(log)>> \o get_alerts_by_severity(Tail(log), severity)
    ELSE get_alerts_by_severity(Tail(log), severity)

\* [a for a in self.alerts if a.location == location]
RECURSIVE get_alerts_by_location(_, _)
get_alerts_by_location(log, location) ==
    IF log = <<>> THEN <<>>
    ELSE IF Head(log).location = location
    THEN <<Head(log)>> \o get_alerts_by_location(Tail(log), location)
    ELSE get_alerts_by_location(Tail(log), location)

\* [a for a in self.alerts if a.rule_id == rule_id]
RECURSIVE get_alerts_by_rule(_, _)
get_alerts_by_rule(log, rule_id) ==
    IF log = <<>> THEN <<>>
    ELSE IF Head(log).rule_id = rule_id
    THEN <<Head(log)>> \o get_alerts_by_rule(Tail(log), rule_id)
    ELSE get_alerts_by_rule(Tail(log), rule_id)

\* [a for a in self.alerts if not a.resolved]
RECURSIVE get_unresolved_alerts(_)
get_unresolved_alerts(log) ==
    IF log = <<>> THEN <<>>
    ELSE IF ~Head(log).resolved
    THEN <<Head(log)>> \o get_unresolved_alerts(Tail(log))
    ELSE get_unresolved_alerts(Tail(log))

\* Variant of Matches: the rule part of the id decides.
MatchesRule(alert, alert_id) == alert.alert_id[1] = alert_id[1]

\* alert.alert_id == alert_id
Matches(alert, alert_id) == alert.alert_id = alert_id

\* alert.resolved = True; alert.resolved_at = datetime.now()
MarkResolved(alert, now) == [alert EXCEPT !.resolved = TRUE, !.resolved_at = now]

RECURSIVE resolve_alert(_, _, _)
\* Variant of AfterMatch: the loop goes on after a match.
ResolveRest(rest, alert_id, now) == resolve_alert(rest, alert_id, now)

\* 'break': the alerts after the first match are left alone.
AfterMatch(rest, alert_id, now) == rest

\* Variant of resolve_alert: the latest-appended alert with the id is the one
\* resolved.
RECURSIVE resolve_latest(_, _, _)
resolve_latest(log, alert_id, now) ==
    IF log = <<>> THEN <<>>
    ELSE IF Matches(log[Len(log)], alert_id)
    THEN Append(SubSeq(log, 1, Len(log) - 1), MarkResolved(log[Len(log)], now))
    ELSE Append(resolve_latest(SubSeq(log, 1, Len(log) - 1), alert_id, now),
                log[Len(log)])

\* resolve_alert: the alert log after the call.
resolve_alert(log, alert_id, now) ==
    IF log = <<>> THEN <<>>
    ELSE IF Matches(Head(log), alert_id)
    THEN <<MarkResolved(Head(log), now)>> \o AfterMatch(Tail(log), alert_id, now)
    ELSE <<Head(log)>> \o resolve_alert(Tail(log), alert_id, now)

\* ------------------------------------------------------------ state machine
\* An EPCISEvent, with the fields the processor and the detectors read.
Event(id, action, event_time, disposition, biz_step, biz_location, epc_list,
      biz_transaction_list, destination_list) ==
    [id |-> id, action |-> action, event_time |-> event_time,
     disposition |-> disposition, biz_step |-> biz_step,
     biz_location |-> biz_location, epc_list |-> epc_list,
     biz_transaction_list |-> biz_transaction_list,
     destination_list |-> destination_list]

\* Events without business transactions and destinations, one for every
\* combination of the given field values.
Events(actions, times, dispositions, biz_steps, locations, epc_lists) ==
    {Event(0, a, t, d, b, l, e, <<>>, <<>>) :
        a \in actions, t \in times, d \in dispositions,
        b \in biz_steps, l \in locations, e \in epc_lists}

\* The event source gives the n-th event it hands over the id n.
WithId(body, n) == [body EXCEPT !.id = n]

WithIds(bodies, n) == [i \in DOMAIN bodies |-> WithId(bodies[i], n + i)]

Current ==
    Processor(epc_history, epc_current_state, context, detectors, alerts,
              processed_events)

Install(P) ==
    /\ epc_history' = P.epc_history
    /\ epc_current_state' = P.epc_current_state
    /\ context' = P.context
    /\ detectors' = P.detectors
    /\ alerts' = P.alerts
    /\ processed_events' = P.processed_events

\* Variant of SharedFields: the context dictionary is one object for all
\* instances.
SharedContext == {"context"}

\* Variant of SharedFields: the detector instances are one list for all
\* instances.
SharedDetectors == {"detectors"}

\* The fields that are the same object in two EventProcessor instances: none,
\* __init__ builds every list and dictionary anew, get_all_detectors builds
\* twelve new detectors at every call, and each detector's __init__ builds its
\* own dictionaries and sets.
SharedFields == {}

\* The instance other after a call changed the instance acting: what they
\* share is written by the call.
WriteThrough(other, acting) ==
    [f \in DOMAIN other |-> IF f \in SharedFields THEN acting[f] ELSE other[f]]

\* The second instance after a call on the first.
Beside(P) == [peer EXCEPT !.P = WriteThrough(peer.P, P), !.prev = peer.P]

Init ==
    /\ epc_history = InitProcessor.epc_history
    /\ epc_current_state = InitProcessor.epc_current_state
    /\ context = InitProcessor.context
    /\ detectors = InitProcessor.detectors
    /\ alerts = InitProcessor.alerts
    /\ processed_events = InitProcessor.processed_events
    /\ submitted = <<>>
    /\ call = [op |-> "init", args |-> <<>>, outcome |-> "returned",
               returned |-> <<>>, steps |-> <<>>]
    /\ prev = InitProcessor
    /\ peer = [P |-> InitProcessor, submitted |-> <<>>, prev |-> InitProcessor]

\* processor.process_event(event)
ProcessEvent(event) ==
    \E o \in {process_event(Current, event)} :
        /\ Install(o.P)
        /\ submitted' = Append(submitted, event)
        /\ call' = [op |-> "process_event", args |-> <<event>>,
                    outcome |-> o.outcome, returned |-> o.returned, steps |-> <<o>>]
        /\ prev' = Current
        /\ peer' = Beside(o.P)

\* processor.process_events(events); the events after one whose call raised
\* are never handed to process_event.
ProcessEvents(events) ==
    \E run \in {process_events(Current, events)} :
        /\ Install(run.P)
        /\ submitted' = submitted \o SubSeq(events, 1, Len(run.steps))
        /\ call' = [op |-> "process_events", args |-> events,
                    outcome |-> run.outcome, returned |-> run.returned,
                    steps |-> run.steps]
        /\ prev' = Current
        /\ peer' = Beside(run.P)

\* process_event(event) on the second instance.
PeerProcessEvent(event) ==
    \E o \in {process_event(peer.P, event)} :
        /\ Install(WriteThrough(Current, o.P))
        /\ submitted' = submitted
        /\ call' = [op |-> "peer.process_event", args |-> <<event>>,
                    outcome |-> o.outcome, returned |-> o.returned, steps |-> <<o>>]
        /\ prev' = Current
        /\ peer' = [P |-> o.P, submitted |-> Append(peer.submitted, event),
                    prev |-> peer.P]

\* processor.resolve_alert(alert_id), the clock reading now.
ResolveAlert(alert_id, now) ==
    /\ alerts' = resolve_alert(alerts, alert_id, now)
    /\ UNCHANGED <<epc_history, epc_current_state, context, detectors,
                   processed_events, submitted>>
    /\ call' = [op |-> "resolve_alert", args |-> <<alert_id>>,
                outcome |-> "returned", returned |-> <<>>, steps |-> <<>>]
    /\ prev' = Current
    /\ peer' = [peer EXCEPT !.prev = peer.P]

\* A query of the alert log that returned the list result.
Answer(op, arg, result) ==
    /\ UNCHANGED <<epc_history, epc_current_state, context, detectors, alerts,
                   processed_events, submitted>>
    /\ call' = [op |-> op, args |-> arg, outcome |-> "returned",
                returned |-> result, steps |-> <<>>]
    /\ prev' = Current
    /\ peer' = [peer EXCEPT !.prev = peer.P]

GetAlertsBySeverity(severity) ==
    Answer("get_alerts_by_severity", <<severity>>,
           get_alerts_by_severity(alerts, severity))

GetAlertsByLocation(location) ==
    Answer("get_alerts_by_location", <<location>>,
           get_alerts_by_location(alerts, location))

GetAlertsByRule(rule_id) ==
    Answer("get_alerts_by_rule", <<rule_id>>, get_alerts_by_rule(alerts, rule_id))

GetUnresolvedAlerts ==
    Answer("get_unresolved_alerts", <<>>, get_unresolved_alerts(alerts))

\* A source that hands over one event of the set bodies, while fewer than max
\* events have been handed over.
Submit(bodies, max) ==
    /\ Len(submitted) < max
    /\ \E body \in bodies : ProcessEvent(WithId(body, Len(submitted) + 1))

\* A source that hands over one event of the set bodies under an id of the set
\* ids: nothing keeps two events from carrying one id, and an event can be
\* handed over twice.
SubmitAs(bodies, ids, max) ==
    /\ Len(submitted) < max
    /\ \E body \in bodies, id \in ids : ProcessEvent(WithId(body, id))

\* A source that hands one event of the set bodies to the second instance.
SubmitPeer(bodies, max) ==
    /\ Len(peer.submitted) < max
    /\ \E body \in bodies : PeerProcessEvent(WithId(body, Len(peer.submitted) + 1))

\* A source that hands over a list of at most maxlen events of the set bodies.
SubmitBatch(bodies, maxlen, max) ==
    \E n \in 0..maxlen :
        /\ Len(submitted) + n <= max
        /\ \E events \in [1..n -> bodies] :
               ProcessEvents(WithIds(events, Len(submitted)))

\* Event times are minutes after a time T0, naive (FALSE) or aware (TRUE).
MaxEvents == 3

MaxBatch == 2

\* ------------------------------------------------------------ tracker runs
\* Receiving events with and without a disposition, for one and two items, at
\* T0 and T0 + 1h naive and at T0 + 1h aware.
TrackerEvents ==
    Events({"ADD"}, {Time(0, FALSE), Time(60, FALSE), Time(60, TRUE)},
           {None, DAMAGED, SELLABLE_ACCESSIBLE}, {RECEIVING}, {"L1"},
           {<<"X">>, <<"X", "Y">>})

Next == Submit(TrackerEvents, MaxEvents)

Spec == Init /\ [][Next]_vars

\* ------------------------------------------------------------ marking runs
\* Inspection + damaged + ADD events and sales, for one and two items, with
\* naive and aware times.
FaultEvents ==
    Events({"ADD"}, {Time(0, FALSE), Time(60, FALSE), Time(60, TRUE)},
           {DAMAGED}, {INSPECTING}, {"L1"}, {<<"X">>, <<"Y", "X">>})
    \cup
    Events({"ADD"}, {Time(0, FALSE), Time(60, FALSE), Time(60, TRUE)},
           {RETAIL_SOLD}, {RETAIL_SELLING}, {"L1"}, {<<"X">>, <<"Y", "X">>})

NextFault == Submit(FaultEvents, MaxEvents)

SpecFault == Init /\ [][NextFault]_vars

\* ------------------------------------------------------------ sale runs
\* Markings at T0 and sales at T0 + 1h that list X, the sale with a sold
\* disposition, with the damaged disposition, or with none.
SaleEvents ==
    Events({"ADD"}, {Time(0, FALSE), Time(0, TRUE)},
           {DAMAGED}, {INSPECTING}, {"L1"}, {<<"X">>, <<"Y", "X">>})
    \cup
    Events({"ADD"}, {Time(60, FALSE), Time(60, TRUE)},
           {RETAIL_SOLD, DAMAGED, None}, {RETAIL_SELLING}, {"L1"},
           {<<"X">>, <<"Y", "X">>})

NextSale == Submit(SaleEvents, MaxEvents)

SpecSale == Init /\ [][NextSale]_vars

\* ------------------------------------------------------------ stale runs
\* Inspection events at T0 and T0 + 31min: markings, DELETEs and events
\* without disposition, of Y or of X.
StaleEvents ==
    Events({"ADD", "DELETE"}, {Time(0, FALSE), Time(31, FALSE), Time(31, TRUE)},
           {DAMAGED, None}, {INSPECTING}, {"L1"}, {<<"Y">>, <<"X">>})

NextStale == Submit(StaleEvents, MaxEvents)

SpecStale == Init /\ [][NextStale]_vars

\* ------------------------------------------------------------ volume runs
\* Markings of one and of three items at two locations, inside and outside
\* the 24 hour window, and a sale.
VolumeEvents ==
    Events({"ADD"}, {Time(0, FALSE), Time(1500, FALSE), Time(60, TRUE)},
           {DAMAGED}, {INSPECTING}, {"L1", "L2"}, {<<"X">>, <<"X", "Y", "Z">>})
    \cup
    Events({"ADD"}, {Time(60, FALSE)}, {RETAIL_SOLD}, {RETAIL_SELLING}, {"L1"},
           {<<"X">>})

NextVolume == Submit(VolumeEvents, MaxEvents)

SpecVolume == Init /\ [][NextVolume]_vars

\* ------------------------------------------------------------ batch runs
\* Markings and sales of X and an event of X without disposition at an aware
\* time, handed over one by one or as lists.
BatchEvents ==
    Events({"ADD"}, {Time(0, FALSE), Time(60, FALSE), Time(60, TRUE)},
           {DAMAGED}, {INSPECTING}, {"L1"}, {<<"X">>})
    \cup
    Events({"ADD"}, {Time(60, FALSE)}, {RETAIL_SOLD, None}, {RETAIL_SELLING},
           {"L1"}, {<<"X">>})
    \cup
    Events({"OBSERVE"}, {Time(60, TRUE)}, {None}, {RECEIVING}, {"L1"}, {<<"X">>})

NextBatch ==
    \/ Submit(BatchEvents, MaxEvents)
    \/ SubmitBatch(BatchEvents, MaxBatch, MaxEvents)

SpecBatch == Init /\ [][NextBatch]_vars

\* ------------------------------------------------------------ log runs
\* At most MaxLog events are handed over in the runs with queries.
MaxLog == 2

\* A damaged shipment at L2, a marking and a sale of X at L1, with naive
\* times, and a receiving event of X without disposition at an aware time.
LogEvents ==
    Events({"ADD"}, {Time(0, FALSE)}, {DAMAGED}, {SHIPPING}, {"L2"}, {<<"X">>})
    \cup
    Events({"ADD"}, {Time(0, FALSE)}, {DAMAGED}, {INSPECTING}, {"L1"}, {<<"X">>})
    \cup
    Events({"ADD"}, {Time(60, FALSE)}, {RETAIL_SOLD}, {RETAIL_SELLING}, {"L1"},
           {<<"X">>})
    \cup
    Events({"OBSERVE"}, {Time(60, TRUE)}, {None}, {RECEIVING}, {"L1"}, {<<"X">>})

\* The ids the events carry, and an id no event carries.
LogIds == {1, 2}

NoId == 9

\* The readings of the clock at the calls of resolve_alert (naive, as
\* datetime.now() gives them).
LogClock == {Time(500, FALSE), Time(600, FALSE)}

Resolve ==
    \E rule \in {1, 6, 10}, id \in LogIds \cup {NoId}, now \in LogClock :
        ResolveAlert(<<rule, id>>, now)

QuerySeverity == \E severity \in {CRITICAL, HIGH, MEDIUM} : GetAlertsBySeverity(severity)

QueryLocation == \E location \in {"L1"} : GetAlertsByLocation(location)

QueryRule == \E rule \in {10} : GetAlertsByRule(rule)

NextLog ==
    \/ SubmitAs(LogEvents, LogIds, MaxLog)
    \/ SubmitBatch(LogEvents, MaxBatch, MaxLog)
    \/ Resolve
    \/ QuerySeverity
    \/ QueryLocation
    \/ QueryRule
    \/ GetUnresolvedAlerts

SpecLog == Init /\ [][NextLog]_vars

\* ------------------------------------------------------------ invoice runs
\* Business transaction lists: none, a purchase order before an invoice, and
\* an invoice.
Transactions ==
    {<<>>,
     <<[type |-> "urn:epcglobal:cbv:btt:po", value |-> "PO1"],
       [type |-> INVOICE_TYPE, value |-> "INV1"]>>,
     <<[type |-> INVOICE_TYPE, value |-> "INV2"]>>}

\* Markings of X at T0 and sales of X at T0 + 1h, each with one of the lists.
InvoiceEvents ==
    {Event(0, "ADD", Time(0, FALSE), DAMAGED, INSPECTING, "L1", <<"X">>, txn, <<>>) :
        txn \in Transactions}
    \cup
    {Event(0, "ADD", Time(60, FALSE), RETAIL_SOLD, RETAIL_SELLING, "L1", <<"X">>,
           txn, <<>>) : txn \in Transactions}

NextInvoice == Submit(InvoiceEvents, MaxEvents)

SpecInvoice == Init /\ [][NextInvoice]_vars

\* ------------------------------------------------------------ two instances
\* A damaged shipment, a marking and a sale of X, handed to one instance or to
\* the other.
PairEvents ==
    Events({"ADD"}, {Time(0, FALSE)}, {DAMAGED}, {SHIPPING, INSPECTING}, {"L1"},
           {<<"X">>})
    \cup
    Events({"ADD"}, {Time(60, FALSE)}, {RETAIL_SOLD}, {RETAIL_SELLING}, {"L1"},
           {<<"X">>})

NextPair ==
    \/ Submit(PairEvents, MaxEvents)
    \/ SubmitPeer(PairEvents, MaxEvents)

SpecPair == Init /\ [][NextPair]_vars

\* ------------------------------------------------------------ release runs
\* Markings of X, an event that gives X a sellable disposition an hour later,
\* sales of X another hour later with and without a disposition and with the
\* actions ADD, OBSERVE and DELETE, and a sale without disposition at an
\* aware time.
ReleaseEvents ==
    Events({"ADD"}, {Time(0, FALSE)}, {DAMAGED}, {INSPECTING}, {"L1"},
           {<<"X">>, <<"Y", "X">>})
    \cup
    Events({"ADD"}, {Time(60, FALSE)}, {SELLABLE_ACCESSIBLE}, {RECEIVING}, {"L1"},
           {<<"X">>})
    \cup
    Events({"ADD"}, {Time(120, FALSE)}, {RETAIL_SOLD, None}, {RETAIL_SELLING}, {"L1"},
           {<<"X">>, <<"Y", "X">>})
    \cup
    Events({"OBSERVE", "DELETE"}, {Time(120, FALSE)}, {RETAIL_SOLD}, {RETAIL_SELLING},
           {"L1"}, {<<"X">>})
    \cup
    Events({"ADD"}, {Time(120, TRUE)}, {None}, {RETAIL_SELLING}, {"L1"}, {<<"X">>})

NextRelease == Submit(ReleaseEvents, MaxEvents)

SpecRelease == Init /\ [][NextRelease]_vars

\* ------------------------------------------------------------ count runs
\* At most MaxCounts events are handed over in the runs with inventory counts.
MaxCounts == 4

\* Damaged + ADD events of X at two locations and of Y and X, OBSERVE events
\* of X at the two locations and without a location, and an OBSERVE event at
\* an aware time.
CountEvents ==
    Events({"ADD"}, {Time(0, FALSE)}, {DAMAGED}, {INSPECTING}, {"L1", "L2"}, {<<"X">>})
    \cup
    Events({"ADD"}, {Time(0, FALSE)}, {DAMAGED}, {INSPECTING}, {"L1"}, {<<"Y", "X">>})
    \cup
    Events({"OBSERVE"}, {Time(60, FALSE)}, {None}, {CYCLE_COUNTING},
           {"L1", "L2", None}, {<<"X">>})
    \cup
    Events({"OBSERVE"}, {Time(60, TRUE)}, {None}, {CYCLE_COUNTING}, {"L2"}, {<<"X">>})

NextCount == Submit(CountEvents, MaxCounts)

SpecCount == Init /\ [][NextCount]_vars

\* ------------------------------------------------------------ retention runs
\* Markings of X and of Y at T0, T0 + 1000min and T0 + 25h, and sales of X
\* at T0 + 1h, one minute before T0 + 24h and at T0 + 24h, and at T0 + 1h
\* with an aware time.
RetentionEvents ==
    Events({"ADD"}, {Time(0, FALSE), Time(1000, FALSE), Time(1500, FALSE)},
           {DAMAGED}, {INSPECTING}, {"L1"}, {<<"X">>, <<"Y">>})
    \cup
    Events({"ADD"}, {Time(60, FALSE), Time(1439, FALSE), Time(1440, FALSE),
                     Time(60, TRUE)},
           {RETAIL_SOLD}, {RETAIL_SELLING}, {"L1"}, {<<"X">>})

NextRetention == Submit(RetentionEvents, MaxEvents)

SpecRetention == Init /\ [][NextRetention]_vars

\* ------------------------------------------------------------ eviction runs
\* Markings of X and of Y at T0 and T0 + 25h, sales of X, DELETE events of X
\* with the damaged and a sold disposition, counts of X at two locations, an
\* event that gives X a sellable disposition, and a marking at an aware time.
PruneEvents ==
    Events({"ADD"}, {Time(0, FALSE), Time(1500, FALSE)}, {DAMAGED}, {INSPECTING},
           {"L1"}, {<<"X">>, <<"Y">>})
    \cup
    Events({"ADD"}, {Time(60, FALSE), Time(1500, FALSE)}, {RETAIL_SOLD},
           {RETAIL_SELLING}, {"L1"}, {<<"X">>})
    \cup
    Events({"DELETE"}, {Time(1500, FALSE)}, {DAMAGED, RETAIL_SOLD}, {INSPECTING},
           {"L1"}, {<<"X">>})
    \cup
    Events({"OBSERVE"}, {Time(1500, FALSE)}, {None}, {CYCLE_COUNTING}, {"L1", "L2"},
           {<<"X">>})
    \cup
    Events({"ADD"}, {Time(1500, FALSE)}, {SELLABLE_ACCESSIBLE}, {RECEIVING}, {"L1"},
           {<<"X">>})
    \cup
    Events({"ADD"}, {Time(60, TRUE)}, {DAMAGED}, {INSPECTING}, {"L1"}, {<<"X">>})

NextPrune == Submit(PruneEvents, MaxEvents)

SpecPrune == Init /\ [][NextPrune]_vars

\* ------------------------------------------------------------ shipping runs
\* Destination lists: none, an owning party, and a location before an owning
\* party.
Destinations ==
    {<<>>,
     <<[type |-> OWNING_PARTY, destination |-> "P1"]>>,
     <<[type |-> "urn:epcglobal:cbv:sdt:location", destination |-> "D1"],
       [type |-> OWNING_PARTY, destination |-> "P1"]>>}

\* Shipping + damaged + ADD events with and without a location, an item and
\* an owning-party destination; events that differ from them in the action,
\* the disposition or the business step; and events at an aware time.
ShipEvents ==
    {Event(0, "ADD", Time(0, FALSE), DAMAGED, SHIPPING, l, e, <<>>, d) :
        l \in {"L1", None}, e \in {<<"X">>, <<>>}, d \in Destinations}
    \cup
    Events({"OBSERVE"}, {Time(0, FALSE)}, {DAMAGED}, {SHIPPING}, {"L1"}, {<<"X">>})
    \cup
    Events({"ADD"}, {Time(0, FALSE)}, {None, SELLABLE_ACCESSIBLE}, {SHIPPING},
           {"L1"}, {<<"X">>})
    \cup
    Events({"ADD"}, {Time(0, FALSE)}, {DAMAGED}, {RECEIVING}, {"L1"}, {<<"X">>})
    \cup
    Events({"ADD"}, {Time(60, TRUE)}, {DAMAGED, None}, {SHIPPING}, {"L1"}, {<<"X">>})

NextShip == Submit(ShipEvents, MaxEvents)

SpecShip == Init /\ [][NextShip]_vars

\* ------------------------------------------------------------ context runs
\* Receiving events with and without a disposition, of X and of no item, at
\* T0 and T0 + 1h naive and at T0 + 1h aware, and an event of Y and X
\* without disposition.
ContextEvents ==
    Events({"ADD"}, {Time(0, FALSE), Time(60, FALSE), Time(60, TRUE)},
           {None, DAMAGED, SELLABLE_ACCESSIBLE}, {RECEIVING}, {"L1"},
           {<<"X">>, <<>>})
    \cup
    Events({"ADD"}, {Time(60, FALSE)}, {None}, {RECEIVING}, {"L1"}, {<<"Y", "X">>})

NextContext == Submit(ContextEvents, MaxEvents)

SpecContext == Init /\ [][NextContext]_vars

\* ------------------------------------------------------------ id runs
\* A damaged shipment, a marking, a sale and a count of X at another
\* location, each handed over under one of three ids.
IdEvents ==
    Events({"ADD"}, {Time(0, FALSE)}, {DAMAGED}, {SHIPPING, INSPECTING}, {"L1"},
           {<<"X">>})
    \cup
    Events({"ADD"}, {Time(60, FALSE)}, {RETAIL_SOLD}, {RETAIL_SELLING}, {"L1"},
           {<<"X">>})
    \cup
    Events({"OBSERVE"}, {Time(60, FALSE)}, {None}, {CYCLE_COUNTING}, {"L2"},
           {<<"X">>})

EventIds == {1, 2, 3}

NextIds == SubmitAs(IdEvents, EventIds, MaxEvents)

SpecIds == Init /\ [][NextIds]_vars

\* ------------------------------------------------------------ reading a run
\* The last operation was one process_event call; its event; what it did.
Single == call.op = "process_event"

TheEvent == call.args[1]

TheStep == call.steps[1]

\* An inspection + damaged + ADD event; a sale event; an event listing x.
IsMark(e) == e.biz_step = INSPECTING /\ e.disposition = DAMAGED /\ e.action = "ADD"

IsSale(e) == e.biz_step = RETAIL_SELLING \/ e.disposition \in {RETAIL_SOLD, ONLINE_SOLD}

Lists(e, x) == \E i \in DOMAIN e.epc_list : e.epc_list[i] = x

\* The positions of a list of alerts that hold an alert of the rule.
ByRule(log, rule) == {i \in DOMAIN log : log[i].rule_id = rule}

\* The positions of the alert log that hold the alert the rule produced while
\* the event with this id was processed.
Produced(rule, id) == {i \in DOMAIN alerts : alerts[i].alert_id = <<rule, id>>}

Last(S) == CHOOSE i \in S : \A j \in S : j <= i

\* The first element of the list that is in S.
FirstListed(list, S) ==
    list[CHOOSE i \in DOMAIN list :
             list[i] \in S /\ \A j \in 1..(i - 1) : list[j] \notin S]

\* The item identifiers of the runs.
Items == {"X", "Y", "Z"}

\* ------------------------------------------------------------ C1
\* C1: for every event process_event processes whose primary identifier was
\* referenced by an earlier event, the previous_disposition the detectors see
\* is the disposition stored for that identifier before the event was merged
\* into the tracker.
C1_PreviousDispositionIsPriorState ==
    (/\ Single
     /\ call.outcome = "returned"
     /\ TheEvent.epc_list # <<>>
     /\ TheEvent.epc_list[1] \in DOMAIN prev.epc_history)
    => TheStep.ctx.previous_disposition =
           IF TheEvent.epc_list[1] \in DOMAIN prev.epc_current_state
           THEN prev.epc_current_state[TheEvent.epc_list[1]].disposition
           ELSE None

\* ------------------------------------------------------------ C8
\* The events handed over that list x, and those of them with a disposition.
Referencing(x) == {i \in DOMAIN submitted : Lists(submitted[i], x)}

Writing(x) == {i \in Referencing(x) : submitted[i].disposition # None}

\* The state record built from an event.
StateOf(e) ==
    [disposition |-> e.disposition, location |-> e.biz_location,
     biz_step |-> e.biz_step, event_time |-> e.event_time, event_id |-> e.id]

\* C8 as stated: the stored state of every referenced identifier is the one
\* built from the most recently processed event that lists it, whatever that
\* event's disposition and event time.
C8_LastWriteWins ==
    \A x \in Items :
        Referencing(x) # {} =>
            /\ x \in DOMAIN epc_current_state
            /\ epc_current_state[x] = StateOf(submitted[Last(Referencing(x))])

\* C8, amended: the stored state of an identifier is the one built from the
\* most recently processed event that lists it and carries a disposition,
\* whatever the event times (last write wins by processing order, for every
\* identifier of a multi-item event); an identifier no such event has listed
\* has no stored state.
C8_LastDispositionWriteWins ==
    /\ DOMAIN epc_current_state \subseteq Items
    /\ \A x \in Items :
           IF Writing(x) = {}
           THEN x \notin DOMAIN epc_current_state
           ELSE /\ x \in DOMAIN epc_current_state
                /\ epc_current_state[x] = StateOf(submitted[Last(Writing(x))])

\* Three events list X: one at T0 + 1h with a disposition, then one at T0 with
\* a disposition that also lists Y, then one without disposition; X and Y hold
\* the state of the second.
C8_Witness ==
    /\ Len(submitted) = 3
    /\ \A i \in 1..3 : Lists(submitted[i], "X")
    /\ submitted[1].disposition # None
    /\ submitted[2].disposition # None
    /\ submitted[3].disposition = None
    /\ submitted[1].event_time.t > submitted[2].event_time.t
    /\ Lists(submitted[2], "Y")
    /\ epc_current_state["X"].event_id = 2
    /\ epc_current_state["Y"].event_id = 2

\* ------------------------------------------------------------ C10
\* C10: one process_event call invokes the twelve detectors once each in the
\* order 1, ..., 12; the alerts it appends have strictly increasing rule ids,
\* are at most twelve, and are exactly the list it returns.
C10_TwelveDetectorsInOrder ==
    Single =>
        /\ TheStep.invoked = <<1, 2, 3, 4, 5, 6, 7, 8, 9, 10, 11, 12>>
        /\ Len(call.returned) <= 12
        /\ \A i, j \in DOMAIN call.returned :
               i < j => call.returned[i].rule_id < call.returned[j].rule_id
        /\ alerts = prev.alerts \o call.returned

\* ------------------------------------------------------------ C2
\* What the rules give for the event one after the other, each on the state
\* its detector had before the call, a rule that raises giving nothing.
RECURSIVE Expected(_, _, _, _)
Expected(rules, event, ctx, dets) ==
    IF rules = <<>> THEN <<>>
    ELSE (IF detect(Head(rules), event, ctx, dets).fault
          THEN <<>>
          ELSE detect(Head(rules), event, ctx, dets).alert)
         \o Expected(Tail(rules), event, ctx, dets)

\* C2: when a detector raises while evaluating an event, process_event still
\* invokes every detector after it in the declared order, appends the alerts
\* they produce to the alert log, appends the event to the processed-event
\* log and returns; the detector that raised contributes no alert.
C2_FaultIsolation ==
    (Single /\ TheStep.faulted # <<>>) =>
        /\ call.outcome = "returned"
        /\ TheStep.invoked = <<1, 2, 3, 4, 5, 6, 7, 8, 9, 10, 11, 12>>
        /\ call.returned =
               Expected(<<1, 2, 3, 4, 5, 6, 7, 8, 9, 10, 11, 12>>, TheEvent,
                        TheStep.ctx, prev.detectors)
        /\ \A i \in DOMAIN call.returned :
               call.returned[i].rule_id \notin Range(TheStep.faulted)
        /\ alerts = prev.alerts \o call.returned
        /\ processed_events = Append(prev.processed_events, TheEvent)

\* Rule 5 raised and rule 9, after it, produced an alert that is in the log.
C2_Witness ==
    /\ Single
    /\ 5 \in Range(TheStep.faulted)
    /\ ByRule(call.returned, 9) # {}
    /\ Produced(9, TheEvent.id) # {}

\* ------------------------------------------------------------ C7
\* C7 as stated: after process_event returns for an inspection + damaged +
\* ADD event, every identifier of its list is tracked by rules 4, 6, 9, 10
\* and 11.
C7_AllTrackedAfterMark ==
    (Single /\ call.outcome = "returned" /\ IsMark(TheEvent)) =>
        \A x \in Range(TheEvent.epc_list) :
            /\ x \in DOMAIN detectors.r4.damaged_items
            /\ x \in detectors.r6.damaged_items
            /\ x \in detectors.r9.sold_items
            /\ x \in {detectors.r10.damaged_events[i].epc :
                         i \in DOMAIN detectors.r10.damaged_events}
            /\ x \in DOMAIN detectors.r11.recently_damaged

\* C7, amended: after process_event returns for an inspection + damaged + ADD
\* event, every identifier of its list is tracked by rules 6, 10 and 11; rule
\* 4 has added the first identifier of the list and no other; rule 9, which
\* tracks sold items, has added none.
C7_TrackedAfterMark ==
    (Single /\ call.outcome = "returned" /\ IsMark(TheEvent)) =>
        /\ \A x \in Range(TheEvent.epc_list) :
               /\ x \in detectors.r6.damaged_items
               /\ x \in {detectors.r10.damaged_events[i].epc :
                            i \in DOMAIN detectors.r10.damaged_events}
               /\ x \in DOMAIN detectors.r11.recently_damaged
        /\ DOMAIN detectors.r4.damaged_items =
               DOMAIN prev.detectors.r4.damaged_items \cup {TheEvent.epc_list[1]}
        /\ detectors.r9.sold_items = prev.detectors.r9.sold_items

\* The marking of Y and X has returned: both are tracked by rules 6, 10 and
\* 11, X is not tracked by rule 4 and neither is tracked by rule 9.
C7_Witness ==
    /\ Single
    /\ call.outcome = "returned"
    /\ IsMark(TheEvent)
    /\ TheEvent.epc_list = <<"Y", "X">>
    /\ {"X", "Y"} \subseteq detectors.r6.damaged_items
    /\ {"X", "Y"} \subseteq DOMAIN detectors.r11.recently_damaged
    /\ "X" \notin DOMAIN detectors.r4.damaged_items
    /\ detectors.r9.sold_items = {}

\* ------------------------------------------------------------ C3
\* On a fresh processor an inspection + damaged + ADD event listing X at T0,
\* then a sale event listing X at T0 + 1h.
MarkThenSale ==
    /\ Len(submitted) >= 2
    /\ IsMark(submitted[1])
    /\ Lists(submitted[1], "X")
    /\ IsSale(submitted[2])
    /\ Lists(submitted[2], "X")
    /\ submitted[2].event_time.t = submitted[1].event_time.t + 60

HeldDamaged(mark, sale) ==
    Range(mark.epc_list) \cup
    (IF sale.disposition = DAMAGED /\ sale.action = "ADD"
     THEN Range(sale.epc_list) ELSE {})

\* The sale's call raises: it carries no disposition, its first identifier was
\* marked, and its time is of the other kind than the marking's.
SaleRaises(mark, sale) ==
    /\ sale.disposition = None
    /\ sale.epc_list[1] \in Range(mark.epc_list)
    /\ sale.event_time.aware # mark.event_time.aware

MarkOrDelete(log, y) ==
    {i \in DOMAIN log :
        Lists(log[i], y) /\ (IsMark(log[i]) \/ log[i].action = "DELETE")}

\* y was marked and no DELETE listing y followed its last marking.
Pending(log, y) ==
    /\ MarkOrDelete(log, y) # {}
    /\ IsMark(log[Last(MarkOrDelete(log, y))])

\* The last marking of y.
Marking(log, y) == log[Last(MarkOrDelete(log, y))]

\* The processed events up to the event with this id.
UpTo(id) == SelectSeq(processed_events, LAMBDA e : e.id <= id)

\* Every rule-10 alert names an identifier that was marked with no DELETE
\* listing it processed since, and carries the id of that marking.
AlertsOnlyPending ==
    \A i \in ByRule(alerts, 10) :
        /\ Pending(UpTo(alerts[i].alert_id[2]), alerts[i].epc)
        /\ alerts[i].event_id =
               Marking(UpTo(alerts[i].alert_id[2]), alerts[i].epc).id

MarksAt(log, location) ==
    {i \in DOMAIN log : IsMark(log[i]) /\ log[i].biz_location = location}

\* C5: the first inspection + damaged + ADD event at a location gives no
\* rule-5 alert, however many items it lists; it seeds the location's average
\* with the window count, the number of its items.
C5_FirstMarkSeeds ==
    (/\ Single
     /\ IsMark(TheEvent)
     /\ TheEvent.biz_location # None
     /\ MarksAt(prev.processed_events, TheEvent.biz_location) = {})
    => /\ call.outcome = "returned"
       /\ 5 \in Range(TheStep.invoked)
       /\ 5 \notin Range(TheStep.faulted)
       /\ ByRule(call.returned, 5) = {}
       /\ Produced(5, TheEvent.id) = {}
       /\ TheEvent.biz_location \in DOMAIN detectors.r5.location_historical_avg
       /\ detectors.r5.location_historical_avg[TheEvent.biz_location] =
              [n |-> Len(TheEvent.epc_list), d |-> 1]
       /\ Len(detectors.r5.location_assignments[TheEvent.biz_location]) =
              Len(TheEvent.epc_list)

\* After markings elsewhere, the first marking at a location lists three
\* items: no rule-5 alert, and an average of three.
C5_Witness ==
    /\ Single
    /\ IsMark(TheEvent)
    /\ MarksAt(prev.processed_events, TheEvent.biz_location) = {}
    /\ \E i \in DOMAIN prev.processed_events : IsMark(prev.processed_events[i])
    /\ Len(TheEvent.epc_list) = 3
    /\ ByRule(call.returned, 5) = {}
    /\ detectors.r5.location_historical_avg[TheEvent.biz_location].n = 3

\* ------------------------------------------------------------ C6
\* The window of a location in the state of rule 5.
WindowOf(dets, location) ==
    IF location \in DOMAIN dets.r5.location_assignments
    THEN dets.r5.location_assignments[location] ELSE <<>>

\* The window count the event brings the location to: the timestamps of the
\* last 24 hours before the call, and one for each item of the event.
CountWith(e) ==
    Cardinality({i \in DOMAIN WindowOf(prev.detectors, e.biz_location) :
                    WindowOf(prev.detectors, e.biz_location)[i].t
                        > e.event_time.t - 24 * 60})
    + Len(e.epc_list)

\* The average of the event's location before the call.
AverageBefore(e) == prev.detectors.r5.location_historical_avg[e.biz_location]

RECURSIVE OneByOne(_, _, _)
OneByOne(P, returned, events) ==
    IF events = <<>>
    THEN [P |-> P, outcome |-> "returned", returned |-> returned]
    ELSE IF process_event(P, Head(events)).outcome = "raised"
    THEN [P |-> process_event(P, Head(events)).P, outcome |-> "raised",
          returned |-> <<>>]
    ELSE OneByOne(process_event(P, Head(events)).P,
                  returned \o process_event(P, Head(events)).returned,
                  Tail(events))

\* C9: process_events(events) processes the events in list order and does
\* what calling process_event on each in turn does: the same tracker, detector
\* states, alert log and processed-event log, and it returns the per-event
\* alert lists one after the other.
C9_BatchIsSequential ==
    call.op = "process_events" =>
        /\ Current = OneByOne(prev, <<>>, call.args).P
        /\ call.outcome = OneByOne(prev, <<>>, call.args).outcome
        /\ call.returned = OneByOne(prev, <<>>, call.args).returned
        /\ call.outcome = "returned" =>
               /\ processed_events = prev.processed_events \o call.args
               /\ alerts = prev.alerts \o call.returned

\* A list of two events was processed and each of the two gave alerts.
C9_Witness ==
    /\ call.op = "process_events"
    /\ Len(call.args) = 2
    /\ call.outcome = "returned"
    /\ call.steps[1].returned # <<>>
    /\ call.steps[2].returned # <<>>
    /\ call.steps[1].returned # call.steps[2].returned

\* ------------------------------------------------------------ C11
\* An alert without its resolved flag and resolution time.
Frame(a) == [a EXCEPT !.resolved = FALSE, !.resolved_at = None]

\* C11: the alert log is append-only under process_event, process_events, the
\* queries and resolve_alert: every alert of the log stays at its position,
\* none is removed or reordered, and the only fields of an alert that change
\* are resolved and resolved_at, changed by resolve_alert only.
C11_AlertLogAppendOnly ==
    /\ Len(alerts) >= Len(prev.alerts)
    /\ \A i \in DOMAIN prev.alerts :
           /\ Frame(alerts[i]) = Frame(prev.alerts[i])
           /\ call.op # "resolve_alert" => alerts[i] = prev.alerts[i]
    /\ call.op \notin {"process_event", "process_events"}
           => Len(alerts) = Len(prev.alerts)

\* A process_event call has appended alerts behind an alert that was resolved
\* before.
C11_Witness ==
    /\ Single
    /\ Len(alerts) > Len(prev.alerts)
    /\ \E i \in DOMAIN prev.alerts : prev.alerts[i].resolved /\ alerts[i].resolved

\* ------------------------------------------------------------ C12
\* The positions of the log that hold an alert of the severity, and the k-th
\* of them.
WithSeverity(log, severity) == {i \in DOMAIN log : log[i].severity = severity}

Kth(S, k) == CHOOSE i \in S : Cardinality({j \in S : j <= i}) = k

\* C12: get_alerts_by_severity(s) returns the alerts of the log whose severity
\* is s, no others, each once, in the order they were appended, and leaves the
\* log as it was.
C12_BySeverityInAppendOrder ==
    call.op = "get_alerts_by_severity" =>
        /\ Len(call.returned) = Cardinality(WithSeverity(alerts, call.args[1]))
        /\ \A k \in DOMAIN call.returned :
               call.returned[k] = alerts[Kth(WithSeverity(alerts, call.args[1]), k)]
        /\ alerts = prev.alerts

\* The log holds a Critical, a Medium and a Critical alert; the query for
\* Critical returned the first and the third.
C12_Witness ==
    /\ call.op = "get_alerts_by_severity"
    /\ call.args = <<CRITICAL>>
    /\ Len(alerts) = 3
    /\ alerts[2].severity = MEDIUM
    /\ call.returned = <<alerts[1], alerts[3]>>
    /\ alerts[1] # alerts[3]

\* ------------------------------------------------------------ C13
\* The positions of the log that hold an unresolved alert, those that hold an
\* alert with the id, and the alerts at the positions S in the order of the log.
Unresolved(log) == {i \in DOMAIN log : ~log[i].resolved}

WithAlertId(log, alert_id) == {i \in DOMAIN log : log[i].alert_id = alert_id}

At(log, S) == [k \in 1..Cardinality(S) |-> log[Kth(S, k)]]

First(S) == CHOOSE i \in S : \A j \in S : i <= j

\* C13 as stated: for any alert a of the log, after resolve_alert(a.alert_id)
\* get_unresolved_alerts() gives the alerts unresolved before without a, and
\* without no other.
C13_ResolveExcludesThatAlert ==
    call.op = "resolve_alert" =>
        \A a \in WithAlertId(prev.alerts, call.args[1]) :
            /\ Unresolved(alerts) = Unresolved(prev.alerts) \ {a}
            /\ get_unresolved_alerts(alerts) = At(alerts, Unresolved(prev.alerts) \ {a})

\* C13, amended: after resolve_alert(id), get_unresolved_alerts() gives the
\* alerts unresolved before without the earliest-appended alert whose id is
\* id, and without no other; a later alert with the same id stays unresolved.
\* get_unresolved_alerts() returns the unresolved alerts in append order and
\* leaves the log as it was.
C13_ResolveExcludesFirstWithId ==
    /\ (call.op = "resolve_alert" /\ WithAlertId(prev.alerts, call.args[1]) # {}) =>
           /\ Unresolved(alerts) =
                  Unresolved(prev.alerts) \ {First(WithAlertId(prev.alerts, call.args[1]))}
           /\ get_unresolved_alerts(alerts) =
                  At(alerts, Unresolved(prev.alerts)
                                 \ {First(WithAlertId(prev.alerts, call.args[1]))})
    /\ call.op = "get_unresolved_alerts" =>
           /\ call.returned = At(alerts, Unresolved(alerts))
           /\ alerts = prev.alerts

\* Two unresolved alerts carried the id: the first is resolved, the second is
\* still unresolved.
C13_Witness ==
    /\ call.op = "resolve_alert"
    /\ Cardinality(WithAlertId(prev.alerts, call.args[1])) = 2
    /\ WithAlertId(prev.alerts, call.args[1]) \subseteq Unresolved(prev.alerts)
    /\ Cardinality(WithAlertId(alerts, call.args[1]) \cap Unresolved(alerts)) = 1
    /\ alerts[First(WithAlertId(alerts, call.args[1]))].resolved

\* ------------------------------------------------------------ C14
\* C14: resolve_alert(id) with an id no alert of the log carries raises
\* nothing and leaves the alerts with their flags and resolution times, the
\* processed-event log, the tracker and the detectors as they were.
C14_UnknownIdIsNoOp ==
    (call.op = "resolve_alert" /\ WithAlertId(prev.alerts, call.args[1]) = {}) =>
        /\ call.outcome = "returned"
        /\ Current = prev
        /\ peer.P = peer.prev

\* The log holds rule-1 alerts, resolve_alert was called with a rule-1 id that
\* none of them carries, and nothing changed.
C14_Witness ==
    /\ call.op = "resolve_alert"
    /\ call.args = <<(<<1, NoId>>)>>
    /\ ByRule(prev.alerts, 1) # {}
    /\ Unresolved(prev.alerts) # {}
    /\ alerts = prev.alerts

\* ------------------------------------------------------------ C15
\* C15: process_events over a list of N events returns, and the
\* processed-event log has then grown by the N events in their order.
C15_BatchLogsEveryEvent ==
    call.op = "process_events" =>
        /\ call.outcome = "returned"
        /\ processed_events = prev.processed_events \o call.args

Invoices(e) ==
    {i \in DOMAIN e.biz_transaction_list : e.biz_transaction_list[i].type = INVOICE_TYPE}

\* C17: the transaction id in the context handed to the detectors is the
\* value of the first invoice entry of the event being processed, and absent
\* when the event has none.
C17_TransactionIdOfSameEvent ==
    (Single /\ call.outcome = "returned") =>
        TheStep.ctx.transaction_id =
            IF Invoices(TheEvent) = {} THEN None
            ELSE TheEvent.biz_transaction_list[First(Invoices(TheEvent))].value

\* ------------------------------------------------------------ C18
\* C18: with no sublocation classifier in the context, as in a processor
\* built by EventProcessor(), rules 7 and 8 give no alert and raise nothing
\* for any event, in any reachable state.
C18_NoClassifierNoOp ==
    /\ context.location_mapper = None
    /\ ByRule(alerts, 7) = {} /\ ByRule(alerts, 8) = {}
    /\ \A s \in DOMAIN call.steps :
           /\ 7 \notin Range(call.steps[s].faulted)
           /\ 8 \notin Range(call.steps[s].faulted)
           /\ call.steps[s].outcome = "returned" =>
                  {7, 8} \subseteq Range(call.steps[s].invoked)
    /\ \A i \in DOMAIN submitted :
           /\ detect(7, submitted[i], context, detectors)
                  = Result(detectors, NoAlert, FALSE)
           /\ detect(8, submitted[i], context, detectors)
                  = Result(detectors, NoAlert, FALSE)

\* An event with a location and the disposition retail_sold, which both
\* rules list, was evaluated by the twelve detectors: rule 11 raised, rules
\* 7 and 8 did not.
C18_Witness ==
    /\ Single
    /\ call.outcome = "returned"
    /\ TheEvent.disposition = RETAIL_SOLD
    /\ TheEvent.disposition \in incorrect_dispositions_sales_floor
                                   \cap incorrect_dispositions_stockroom
    /\ TheEvent.biz_location # None
    /\ {7, 8} \subseteq Range(TheStep.invoked)
    /\ 11 \in Range(TheStep.faulted)
    /\ 7 \notin Range(TheStep.faulted)

\* ------------------------------------------------------------ C19
\* The field of the detector set that holds the private state of a rule's
\* detector; the stateless rules have none.
Own(rule) ==
    CASE rule = 4 -> "r4" [] rule = 5 -> "r5" [] rule = 6 -> "r6"
      [] rule = 9 -> "r9" [] rule = 10 -> "r10" [] rule = 11 -> "r11"
      [] OTHER -> "none"

\* A detect call of the rule on the detector set dets changes no other
\* detector's state.
OwnStateOnly(rule, event, ctx, dets) ==
    \A f \in DOMAIN dets :
        f # Own(rule) => detect(rule, event, ctx, dets).st[f] = dets[f]

C21_ContextHandedUnchanged ==
    /\ \A s \in DOMAIN call.steps :
           /\ Len(call.steps[s].handed) = Len(call.steps[s].invoked)
           /\ call.steps[s].outcome = "returned" => Len(call.steps[s].handed) = 12
           /\ \A i \in DOMAIN call.steps[s].handed :
                  call.steps[s].handed[i] = call.steps[s].ctx
           /\ call.steps[s].P.context = call.steps[s].ctx
           /\ call.steps[s].ctx.is_bulk_operation
                  = (Len(call.steps[s].event.epc_list) > 1)
    /\ Single =>
           /\ TheStep.ctx = update_context(prev.context, epc_current_state, TheEvent).context
           /\ context = TheStep.ctx

\* A sale of two items without disposition, whose first item was marked
\* before: the twelve detectors were handed the bulk flag and the previous
\* disposition damaged, rule 6 read them and gave an alert, and the twelfth
\* detector was handed what the first was.
C21_Witness ==
    /\ Single
    /\ call.outcome = "returned"
    /\ Len(TheStep.handed) = 12
    /\ TheStep.handed[1].is_bulk_operation
    /\ TheStep.handed[1].previous_disposition = DAMAGED
    /\ TheStep.handed[12] = TheStep.handed[1]
    /\ ByRule(call.returned, 6) # {}
    /\ prev.context # context

\* ------------------------------------------------------------ C22
\* C22: after an event that gives item X the damaged disposition at T0, a
\* receiving event with the damaged disposition whose primary item is X, at
\* T1 > T0, yields a rule-2 alert for X.
C22_PersistentDamagedAlert ==
    (/\ Len(submitted) >= 2
     /\ Lists(submitted[1], "X")
     /\ submitted[1].disposition = DAMAGED
     /\ submitted[2].biz_step = RECEIVING
     /\ submitted[2].disposition = DAMAGED
     /\ submitted[2].epc_list[1] = "X"
     /\ submitted[2].event_time.t > submitted[1].event_time.t)
    => \E i \in Produced(2, 2) : alerts[i].epc = "X"

\* ------------------------------------------------------------ C23
\* A damaged + ADD event for X, then a later event that gives X a disposition
\* other than damaged.
MarkThenRelease ==
    /\ Len(submitted) >= 2
    /\ submitted[1].disposition = DAMAGED
    /\ submitted[1].action = "ADD"
    /\ submitted[1].epc_list = <<"X">>
    /\ submitted[2].epc_list = <<"X">>
    /\ submitted[2].disposition \notin {None, DAMAGED}
    /\ submitted[2].event_time.t > submitted[1].event_time.t

\* C23: after a damaged + ADD event for X and a later event that gives X a
\* non-damaged disposition, X is not in rule 6's set, and a subsequent sale
\* event listing X yields no rule-6 alert.
C23_ReleasedItemLeavesSet ==
    /\ (MarkThenRelease /\ Len(submitted) = 2) => "X" \notin detectors.r6.damaged_items
    /\ (MarkThenRelease /\ Len(submitted) = 3 /\ IsSale(submitted[3])
           /\ Lists(submitted[3], "X"))
           => Produced(6, 3) = {}

\* ------------------------------------------------------------ C24
\* The items listed by a sale event of the log, and those listed by a sale
\* event of the log whose action is ADD.
SoldByAny(log) ==
    {x \in Items : \E i \in DOMAIN log : IsSale(log[i]) /\ Lists(log[i], x)}

SoldByAdd(log) ==
    {x \in Items :
        \E i \in DOMAIN log :
            IsSale(log[i]) /\ log[i].action = "ADD" /\ Lists(log[i], x)}

\* C24 as stated: once a sale event listing X was processed, whatever its
\* action, a later inspection + damaged + ADD event listing X yields a rule-9
\* alert, High, naming an item of the event that a sale listed; there is no
\* rule-9 alert when no sale listed an item of the event.
C24_SoldThenDamaged ==
    (Single /\ IsMark(TheEvent)) =>
        IF Range(TheEvent.epc_list) \cap SoldByAny(prev.processed_events) # {}
        THEN \E k \in ByRule(call.returned, 9) :
                 /\ call.returned[k].severity = HIGH
                 /\ call.returned[k].epc \in
                        Range(TheEvent.epc_list) \cap SoldByAny(prev.processed_events)
        ELSE ByRule(call.returned, 9) = {}

\* C24, amended: rule 9 marks the items of a sale event sold only when the
\* action of the sale is ADD and only when the sale's call reached the
\* detectors (returned).  An inspection + damaged + ADD event listing such an
\* item returns exactly one rule-9 alert, High, naming the first item of its
\* list that such a sale listed; when no item of its list was listed by such
\* a sale, sales with the action OBSERVE or DELETE included, it yields no
\* rule-9 alert; and no other event yields one.
C24_AddSaleThenDamaged ==
    /\ (Single /\ IsMark(TheEvent)) =>
           /\ call.outcome = "returned"
           /\ detectors.r9.sold_items = SoldByAdd(prev.processed_events)
           /\ IF Range(TheEvent.epc_list) \cap SoldByAdd(prev.processed_events) # {}
              THEN /\ Cardinality(ByRule(call.returned, 9)) = 1
                   /\ \A k \in ByRule(call.returned, 9) :
                          /\ call.returned[k].severity = HIGH
                          /\ call.returned[k].epc =
                                 FirstListed(TheEvent.epc_list,
                                             SoldByAdd(prev.processed_events))
                          /\ \E i \in Produced(9, TheEvent.id) :
                                 alerts[i] = call.returned[k]
              ELSE ByRule(call.returned, 9) = {}
    /\ (Single /\ ~IsMark(TheEvent)) => ByRule(call.returned, 9) = {}

\* X was sold by a sale with the action ADD; the marking of Y and X has given
\* a rule-9 alert that names X.
C24_Witness ==
    /\ Single
    /\ IsMark(TheEvent)
    /\ TheEvent.epc_list = <<"Y", "X">>
    /\ SoldByAdd(prev.processed_events) = {"X"}
    /\ \E k \in ByRule(call.returned, 9) :
           call.returned[k].epc = "X" /\ call.returned[k].severity = HIGH

\* ------------------------------------------------------------ C25
\* The events of the log that mark x damaged (damaged + ADD): those that list
\* x, or only those whose first item is x.
MarkedDamaged(log, x, primary) ==
    {i \in DOMAIN log :
        /\ log[i].disposition = DAMAGED
        /\ log[i].action = "ADD"
        /\ IF primary THEN log[i].epc_list[1] = x ELSE Lists(log[i], x)}

\* The OBSERVE events of the log with primary item x and a location.
Observes(log, x) ==
    {i \in DOMAIN log :
        /\ log[i].action = "OBSERVE"
        /\ log[i].epc_list[1] = x
        /\ log[i].biz_location # None}

\* The number of OBSERVE events of x away from the location of the marking m
\* since the later of the marking and the last OBSERVE of x at that location.
MissesSince(log, x, m) ==
    Cardinality(
        {i \in Observes(log, x) :
            /\ log[i].biz_location # log[m].biz_location
            /\ i > Last({m} \cup {j \in Observes(log, x) :
                                     j > m /\ log[j].biz_location = log[m].biz_location})})

\* The counter rule 4 holds for every marked item is the number of misses,
\* and its location that of the last marking.
CounterCountsMisses(primary) ==
    \A x \in Items :
        MarkedDamaged(processed_events, x, primary) # {} =>
            /\ x \in DOMAIN detectors.r4.damaged_items
            /\ detectors.r4.damaged_items[x].location =
                   processed_events[Last(MarkedDamaged(processed_events, x, primary))]
                       .biz_location
            /\ detectors.r4.damaged_items[x].count_not_observed =
                   MissesSince(processed_events, x,
                               Last(MarkedDamaged(processed_events, x, primary)))

\* The last event processed is an OBSERVE of a marked item away from the
\* location of its marking that brings the misses to the threshold or above.
MissAtThreshold(primary) ==
    /\ TheEvent.action = "OBSERVE"
    /\ TheEvent.biz_location # None
    /\ MarkedDamaged(processed_events, TheEvent.epc_list[1], primary) # {}
    /\ TheEvent.biz_location #
           processed_events[Last(MarkedDamaged(processed_events, TheEvent.epc_list[1],
                                               primary))].biz_location
    /\ MissesSince(processed_events, TheEvent.epc_list[1],
                   Last(MarkedDamaged(processed_events, TheEvent.epc_list[1], primary)))
           >= 2

\* C25 as stated: for an item marked damaged (damaged + ADD) at L, listed at
\* any place of the marking, rule 4's counter is the number of OBSERVE events
\* with that primary item away from L since the later of the marking and the
\* last OBSERVE at L, and rule 4 gives an alert exactly on the OBSERVE events
\* whose miss brings the counter to 2 or more.
C25_MissCounter ==
    /\ CounterCountsMisses(FALSE)
    /\ (Single /\ call.outcome = "returned") =>
           (ByRule(call.returned, 4) # {} <=> MissAtThreshold(FALSE))

\* C25, amended: rule 4 tracks an item only as the first item of a damaged +
\* ADD event.  For an item X so marked, last at location L, the counter is
\* the number of processed OBSERVE events with primary item X and a location
\* other than L since the later of that marking and the last OBSERVE of X at
\* L; an OBSERVE at L resets it to 0, an OBSERVE without a location leaves
\* it; rule 4 gives an alert, naming X, L and the counter, exactly on the
\* OBSERVE events whose miss brings the counter to 2 or more.  The items of
\* a marking after the first have no counter and never give a rule-4 alert.
C25_MissCounterOfPrimary ==
    /\ CounterCountsMisses(TRUE)
    /\ \A x \in Items :
           x \in DOMAIN detectors.r4.damaged_items
               => MarkedDamaged(processed_events, x, TRUE) # {}
    /\ (Single /\ call.outcome = "returned") =>
           /\ ByRule(call.returned, 4) # {} <=> MissAtThreshold(TRUE)
           /\ \A k \in ByRule(call.returned, 4) :
                  /\ call.returned[k].epc = TheEvent.epc_list[1]
                  /\ call.returned[k].location # TheEvent.biz_location
                  /\ call.returned[k].details.consecutive_counts_missing =
                         detectors.r4.damaged_items[TheEvent.epc_list[1]]
                             .count_not_observed
    /\ (Single /\ call.outcome = "raised") => detectors = prev.detectors

\* X was marked at L1, missed at L2, observed at L1 and missed at L2 again:
\* two misses were processed, the counter is 1 and the last miss gave no
\* alert.
C25_Witness ==
    /\ Single
    /\ Len(processed_events) = 4
    /\ MarkedDamaged(processed_events, "X", TRUE) = {1}
    /\ processed_events[1].biz_location = "L1"
    /\ processed_events[2].biz_location = "L2"
    /\ processed_events[3].biz_location = "L1"
    /\ processed_events[4].biz_location = "L2"
    /\ prev.detectors.r4.damaged_items["X"].count_not_observed = 0
    /\ detectors.r4.damaged_items["X"].count_not_observed = 1
    /\ ByRule(call.returned, 4) = {}

\* ------------------------------------------------------------ C26
\* C26: after every call of rule 11's detect for an event with time T,
\* whether or not it gave an alert, the map of rule 11 holds no entry whose
\* timestamp is at or before T minus 24 hours.
C26_PrunedOnEveryCall ==
    \A s \in DOMAIN call.steps :
        11 \in Range(call.steps[s].invoked) =>
            \A x \in DOMAIN call.steps[s].P.detectors.r11.recently_damaged :
                call.steps[s].P.detectors.r11.recently_damaged[x].t
                    > call.steps[s].event.event_time.t - 24 * 60

\* ------------------------------------------------------------ C27
\* C27: when X was marked at T0 and a sale listing X with a time T1, T0 <= T1
\* < T0 + 24h, is processed later, with no event listing X in between, the
\* sale yields a rule-11 alert for X, whatever the times of the events in
\* between.  (Stated for event times of one kind.)
C27_SaleWithinWindowAlerts ==
    \A i, j \in DOMAIN submitted :
        (/\ i < j
         /\ IsMark(submitted[i])
         /\ Lists(submitted[i], "X")
         /\ IsSale(submitted[j])
         /\ Lists(submitted[j], "X")
         /\ \A k \in (i + 1)..(j - 1) : ~Lists(submitted[k], "X")
         /\ \A k \in i..j :
                submitted[k].event_time.aware = submitted[i].event_time.aware
         /\ submitted[i].event_time.t <= submitted[j].event_time.t
         /\ submitted[j].event_time.t < submitted[i].event_time.t + 24 * 60)
        => \E a \in Produced(11, j) : alerts[a].epc = "X"

\* ------------------------------------------------------------ C28
\* The time of the last marking of the log that lists x.
LastMarked(log, x) ==
    log[Last({i \in DOMAIN log : IsMark(log[i]) /\ Lists(log[i], x)})].event_time

\* C28: a rule-11 alert names an item of a sale event that rule 11 tracks,
\* whose recorded damaged time is that of the last marking processed, and
\* the sale's time is less than 24 hours after it; a sale 24 hours or more
\* after the recorded time of X yields no rule-11 alert for X.
C28_AlertOnlyWithinRetention ==
    Single =>
        /\ \A k \in ByRule(call.returned, 11) :
               /\ IsSale(TheEvent)
               /\ Lists(TheEvent, call.returned[k].epc)
               /\ call.returned[k].epc \in DOMAIN prev.detectors.r11.recently_damaged
               /\ prev.detectors.r11.recently_damaged[call.returned[k].epc] =
                      LastMarked(prev.processed_events, call.returned[k].epc)
               /\ call.returned[k].details.damaged_at =
                      prev.detectors.r11.recently_damaged[call.returned[k].epc]
               /\ TheEvent.event_time.t
                      - prev.detectors.r11.recently_damaged[call.returned[k].epc].t
                      < 24 * 60
        /\ \A x \in DOMAIN prev.detectors.r11.recently_damaged :
               (TheEvent.event_time.t - prev.detectors.r11.recently_damaged[x].t
                    >= 24 * 60)
               => \A k \in ByRule(call.returned, 11) : call.returned[k].epc # x

\* X was marked at T0; a sale of X one minute before T0 + 24h has given a
\* rule-11 alert for X.
C28_Witness ==
    /\ Single
    /\ IsSale(TheEvent)
    /\ "X" \in DOMAIN prev.detectors.r11.recently_damaged
    /\ TheEvent.event_time.t - prev.detectors.r11.recently_damaged["X"].t = 24 * 60 - 1
    /\ \E k \in ByRule(call.returned, 11) :
           /\ call.returned[k].epc = "X"
           /\ call.returned[k].details.time_between_minutes = 24 * 60 - 1

\* ------------------------------------------------------------ C29
\* The locations of the runs.
Locations == {"L1", "L2"}

\* The average rule 5 holds for a location, as a sequence of zero or one.
AverageOf(dets, location) ==
    IF location \in DOMAIN dets.r5.location_historical_avg
    THEN <<dets.r5.location_historical_avg[location]>> ELSE <<>>

\* Rule 5 has evaluated the last event, an inspection + damaged + ADD event
\* at the location.
Evaluated(location) ==
    /\ IsMark(TheEvent)
    /\ TheEvent.biz_location = location
    /\ call.outcome = "returned"
    /\ 5 \notin Range(TheStep.faulted)

\* C29: the historical average of a location changes only so: the first
\* evaluation at the location sets it to the window count; a later
\* evaluation that gives no alert replaces it by 0.9 x old + 0.1 x count; an
\* evaluation that gives an alert, and every event that is not an inspection
\* + damaged + ADD event at the location, leaves it as it was.
C29_AverageUpdates ==
    Single =>
        \A location \in Locations :
            IF ~Evaluated(location)
            THEN AverageOf(detectors, location) = AverageOf(prev.detectors, location)
            ELSE IF AverageOf(prev.detectors, location) = <<>>
            THEN AverageOf(detectors, location) = <<[n |-> CountWith(TheEvent), d |-> 1]>>
            ELSE IF ByRule(call.returned, 5) # {}
            THEN AverageOf(detectors, location) = AverageOf(prev.detectors, location)
            ELSE AverageOf(detectors, location) =
                     <<[n |-> 9 * AverageBefore(TheEvent).n
                                  + CountWith(TheEvent) * AverageBefore(TheEvent).d,
                        d |-> 10 * AverageBefore(TheEvent).d]>>

\* A location with the average 1 got a second marking of one item: no alert,
\* and the average is 0.9 + 0.2 = 11/10, while the other location has none.
C29_Witness ==
    /\ Single
    /\ Evaluated("L1")
    /\ AverageOf(prev.detectors, "L1") = <<[n |-> 1, d |-> 1]>>
    /\ CountWith(TheEvent) = 2
    /\ ByRule(call.returned, 5) = {}
    /\ AverageOf(detectors, "L1") = <<[n |-> 11, d |-> 10]>>
    /\ AverageOf(detectors, "L2") = <<>>

\* ------------------------------------------------------------ C30
\* The number of items listed by the inspection + damaged + ADD events of
\* the log at the location with a time later than the cutoff.
RECURSIVE ItemsMarkedSince(_, _, _)
ItemsMarkedSince(log, location, cutoff) ==
    IF log = <<>> THEN 0
    ELSE (IF /\ IsMark(Head(log))
             /\ Head(log).biz_location = location
             /\ Head(log).event_time.t > cutoff
          THEN Len(Head(log).epc_list) ELSE 0)
         + ItemsMarkedSince(Tail(log), location, cutoff)

\* C30: right after rule 5 evaluated an inspection + damaged + ADD event with
\* time T at L, the window of L holds only timestamps later than T - 24h, one
\* entry per item of every such event at L with a time later than T - 24h,
\* and the windows of the other locations are as they were.  (Stated for
\* event times of one kind.)
C30_WindowHoldsQualifying ==
    (/\ Single
     /\ Evaluated(TheEvent.biz_location)
     /\ \A i \in DOMAIN processed_events :
            processed_events[i].event_time.aware = TheEvent.event_time.aware)
    => /\ \A i \in DOMAIN WindowOf(detectors, TheEvent.biz_location) :
              WindowOf(detectors, TheEvent.biz_location)[i].t
                  > TheEvent.event_time.t - 24 * 60
       /\ Len(WindowOf(detectors, TheEvent.biz_location)) =
              ItemsMarkedSince(processed_events, TheEvent.biz_location,
                               TheEvent.event_time.t - 24 * 60)
       /\ \A location \in Locations \ {TheEvent.biz_location} :
              WindowOf(detectors, location) = WindowOf(prev.detectors, location)

\* ------------------------------------------------------------ C31
\* The place y took in rule 10's tracking: the earliest marking of y that no
\* DELETE listing y followed.
InsertedAt(log, y) ==
    CHOOSE i \in DOMAIN log :
        /\ IsMark(log[i]) /\ Lists(log[i], y)
        /\ \A j \in DOMAIN log :
               (j > i /\ Lists(log[j], y)) => log[j].action # "DELETE"
        /\ \A k \in 1..(i - 1) :
               ~(/\ IsMark(log[k]) /\ Lists(log[k], y)
                 /\ \A j \in DOMAIN log :
                        (j > k /\ Lists(log[j], y)) => log[j].action # "DELETE")

\* y is tracked and its damaged time is more than 30 minutes before now.
Stale(log, y, now) ==
    /\ Pending(log, y)
    /\ Comparable(now, Marking(log, y).event_time)
    /\ Diff(now, Marking(log, y).event_time) > timeout_minutes

\* The stale items tracked before y.
StaleBefore(log, y, now) ==
    {z \in Items : /\ Stale(log, z, now)
                   /\ InsertedAt(log, z) < InsertedAt(log, y)}

\* C31: a process_event call gives at most one rule-10 alert; the alert names
\* a stale item before which no stale item is tracked, so that with several
\* stale items only the first in tracking order is named; and when an item is
\* stale and rule 10 does not raise, there is such an alert.
C31_FirstStaleOnly ==
    (Single /\ call.outcome = "returned") =>
        /\ Cardinality(ByRule(call.returned, 10)) <= 1
        /\ \A i \in ByRule(call.returned, 10) :
               /\ Stale(processed_events, call.returned[i].epc, TheEvent.event_time)
               /\ StaleBefore(processed_events, call.returned[i].epc,
                              TheEvent.event_time) = {}
        /\ (/\ 10 \notin Range(TheStep.faulted)
            /\ \E y \in Items : Stale(processed_events, y, TheEvent.event_time))
           => ByRule(call.returned, 10) # {}

\* X and Y are both stale at an event, X tracked before Y, and the one
\* rule-10 alert of the event names X.
C31_Witness ==
    /\ Single
    /\ Stale(processed_events, "X", TheEvent.event_time)
    /\ Stale(processed_events, "Y", TheEvent.event_time)
    /\ InsertedAt(processed_events, "X") < InsertedAt(processed_events, "Y")
    /\ \E i \in ByRule(call.returned, 10) : call.returned[i].epc = "X"

\* ------------------------------------------------------------ C32
\* The identifiers the tracker, rule 4 and rule 9 of a processor hold.
Kept(P) ==
    [history |-> DOMAIN P.epc_history,
     state |-> DOMAIN P.epc_current_state,
     r4 |-> DOMAIN P.detectors.r4.damaged_items,
     r9 |-> P.detectors.r9.sold_items]

\* Rule 11's map and the window of rule 5 at the location hold nothing that
\* is 24 hours or more older than the time now.
WithinRetention(dets, now) ==
    \A k \in DOMAIN dets.r11.recently_damaged :
        dets.r11.recently_damaged[k].t > now.t - retention_minutes

WithinWindow(dets, location, now) ==
    \A i \in DOMAIN WindowOf(dets, location) :
        WindowOf(dets, location)[i].t > now.t - window_minutes

\* C32: no call removes an identifier from the tracker's history and state
\* maps, from rule 4's tracking map or from rule 9's sold set, and no history
\* gets shorter; rule 11's map holds no entry 24 hours old or older after a
\* call in which rule 11 gave no alert and did not raise, and the window of a
\* location holds none after a marking at the location in which rule 5 did
\* not raise.
C32_NoSelfPruning ==
    /\ \A f \in DOMAIN Kept(prev) : Kept(prev)[f] \subseteq Kept(Current)[f]
    /\ \A x \in DOMAIN prev.epc_history :
           Len(prev.epc_history[x]) <= Len(epc_history[x])
    /\ (/\ Single /\ call.outcome = "returned"
        /\ 11 \notin Range(TheStep.faulted)
        /\ ByRule(call.returned, 11) = {})
       => WithinRetention(detectors, TheEvent.event_time)
    /\ (/\ Single /\ call.outcome = "returned"
        /\ IsMark(TheEvent) /\ get_location(TheEvent) # None
        /\ 5 \notin Range(TheStep.faulted))
       => WithinWindow(detectors, get_location(TheEvent), TheEvent.event_time)

\* X was marked and sold; a DELETE event of X 25 hours after the marking has
\* dropped X from rule 11's map while the tracker, rule 4 and rule 9 still
\* hold X.
C32_Witness ==
    /\ Single
    /\ TheEvent.action = "DELETE" /\ Lists(TheEvent, "X")
    /\ "X" \in DOMAIN prev.detectors.r11.recently_damaged
    /\ "X" \notin DOMAIN detectors.r11.recently_damaged
    /\ \A f \in DOMAIN Kept(Current) : "X" \in Kept(Current)[f]

\* ------------------------------------------------------------ C33
\* The event is a shipping + damaged + ADD event without an owning-party
\* destination entry.
RegularDamagedShipment(e) ==
    /\ e.biz_step = SHIPPING /\ e.disposition = DAMAGED /\ e.action = "ADD"
    /\ \A i \in DOMAIN e.destination_list :
           e.destination_list[i].type # OWNING_PARTY

\* C33 as stated: a process_event call gives a rule-1 alert exactly when its
\* event is a shipping + damaged + ADD event without an owning-party
\* destination entry, whatever was processed before.
C33_RegularShipmentAlert ==
    Single =>
        (ByRule(call.returned, 1) # {} <=> RegularDamagedShipment(TheEvent))

\* C33, amended: a process_event call gives a rule-1 alert, exactly one,
\* naming the event's first item and its location, exactly when its event is
\* a shipping + damaged + ADD event without an owning-party destination entry
\* that lists an item and has a business location, whatever was processed
\* before; rule 1 never raises.
C33_RegularShipmentAlertWithItemAndLocation ==
    Single =>
        /\ ByRule(call.returned, 1) # {} <=>
               /\ RegularDamagedShipment(TheEvent)
               /\ TheEvent.epc_list # <<>>
               /\ TheEvent.biz_location # None
        /\ Cardinality(ByRule(call.returned, 1)) <= 1
        /\ \A i \in ByRule(call.returned, 1) :
               /\ call.returned[i].epc = TheEvent.epc_list[1]
               /\ call.returned[i].location = TheEvent.biz_location
               /\ call.returned[i].alert_id = <<1, TheEvent.id>>
        /\ 1 \notin Range(TheStep.faulted)

\* After a flagged return that gave no rule-1 alert, a regular damaged
\* shipment of the same item has given one.
C33_Witness ==
    /\ Single
    /\ Len(prev.processed_events) > 0
    /\ LET before == prev.processed_events[Len(prev.processed_events)]
       IN /\ before.biz_step = SHIPPING /\ before.disposition = DAMAGED
          /\ before.destination_list # <<>>
          /\ before.destination_list[1].type # OWNING_PARTY
          /\ Produced(1, before.id) = {}
    /\ RegularDamagedShipment(TheEvent)
    /\ ByRule(call.returned, 1) # {}

\* ------------------------------------------------------------ C34
\* The stored state of the event's primary item before the call is strictly
\* earlier than the event.
EarlierState(P, e) ==
    /\ e.epc_list # <<>>
    /\ e.epc_list[1] \in DOMAIN P.epc_current_state
    /\ Comparable(P.epc_current_state[e.epc_list[1]].event_time, e.event_time)
    /\ P.epc_current_state[e.epc_list[1]].event_time.t < e.event_time.t

C35_StaleAlertRepeats ==
    (Single /\ call.outcome = "returned") =>
        /\ ByRule(call.returned, 10) # {} =>
               DictKeys(detectors.r10.damaged_events) # {}
        /\ \A y \in Items :
               Stale(processed_events, y, TheEvent.event_time)
               => ByRule(call.returned, 10) # {}

\* ------------------------------------------------------------ C36
\* No two entries of the list of events carry one id.
DistinctIds(log) ==
    \A i, j \in DOMAIN log : i # j => log[i].id # log[j].id

\* C36: when the processed events carry pairwise distinct ids, the alerts of
\* the alert log carry pairwise distinct alert ids, whichever rules gave them.
C36_DistinctAlertIds ==
    DistinctIds(processed_events) =>
        \A i, j \in DOMAIN alerts : i # j => alerts[i].alert_id # alerts[j].alert_id

\* Three events with distinct ids have been processed; the log holds alerts
\* of different rules for one event, and alerts of one rule for two events.
C36_Witness ==
    /\ Len(processed_events) = 3
    /\ DistinctIds(processed_events)
    /\ \E i, j \in DOMAIN alerts :
           /\ alerts[i].rule_id # alerts[j].rule_id
           /\ alerts[i].alert_id[2] = alerts[j].alert_id[2]
    /\ \E i, j \in DOMAIN alerts :
           /\ alerts[i].rule_id = alerts[j].rule_id
           /\ alerts[i].alert_id[2] # alerts[j].alert_id[2]

\* ------------------------------------------------------------ C37
\* The positions at which two alert logs of one length differ.
Changed(before, after) == {i \in DOMAIN before : after[i] # before[i]}

\* The alerts of the log behind the earliest alert with the same id.
Shadowed(log) ==
    {i \in DOMAIN log : i # First(WithAlertId(log, log[i].alert_id))}

\* C37: resolve_alert(id) changes at most one alert: the earliest-appended
\* alert whose id is id gets resolved set and a resolution time of the clock,
\* and nothing else of it changes; every other alert, a later alert with the
\* same id included, and everything else of the processor stay as they were.
\* An alert behind an earlier alert with the same id is never resolved and is
\* in what get_unresolved_alerts() returns.
C37_ResolveChangesOneAlert ==
    /\ call.op = "resolve_alert" =>
           /\ Len(alerts) = Len(prev.alerts)
           /\ Cardinality(Changed(prev.alerts, alerts)) <= 1
           /\ WithAlertId(prev.alerts, call.args[1]) = {} => alerts = prev.alerts
           /\ WithAlertId(prev.alerts, call.args[1]) # {} =>
                  /\ Changed(prev.alerts, alerts)
                         \subseteq {First(WithAlertId(prev.alerts, call.args[1]))}
                  /\ alerts[First(WithAlertId(prev.alerts, call.args[1]))].resolved
                  /\ alerts[First(WithAlertId(prev.alerts, call.args[1]))].resolved_at
                         \in LogClock
                  /\ Frame(alerts[First(WithAlertId(prev.alerts, call.args[1]))])
                         = Frame(prev.alerts[First(WithAlertId(prev.alerts, call.args[1]))])
           /\ [Current EXCEPT !.alerts = prev.alerts] = prev
    /\ \A i \in Shadowed(alerts) :
           /\ ~alerts[i].resolved
           /\ \E k \in DOMAIN get_unresolved_alerts(alerts) :
                  get_unresolved_alerts(alerts)[k] = alerts[i]

\* The same event was processed twice and gave two alerts with one id;
\* resolve_alert with that id has resolved the first, and the second is
\* unchanged and unresolved.
C37_Witness ==
    /\ call.op = "resolve_alert"
    /\ Len(processed_events) = 2
    /\ processed_events[1] = processed_events[2]
    /\ Cardinality(WithAlertId(prev.alerts, call.args[1])) = 2
    /\ Changed(prev.alerts, alerts) = {First(WithAlertId(prev.alerts, call.args[1]))}
    /\ \E i \in Shadowed(alerts) :
           alerts[i].alert_id = call.args[1] /\ ~alerts[i].resolved

\* ------------------------------------------------------------ C38
\* Rule 4's counter of the item in a detector set.
Misses(dets, x) == dets.r4.damaged_items[x].count_not_observed

\* The event is a count of x (an OBSERVE event whose primary item is x) that
\* rule 4 got to see, at a location other than the one x was marked at.
MissOf(e, x) ==
    /\ Single /\ call.outcome = "returned"
    /\ e.action = "OBSERVE"
    /\ e.epc_list # <<>> /\ e.epc_list[1] = x
    /\ x \in DOMAIN prev.detectors.r4.damaged_items
    /\ e.biz_location # None
    /\ e.biz_location # prev.detectors.r4.damaged_items[x].location

\* C38: a rule-4 alert leaves the item's counter in place, at the value the
\* alert reports; once the counter of X has reached the threshold, every
\* further count of X (OBSERVE event with primary item X, processed by rule
\* 4) at a location other than the marking location gives exactly one more
\* rule-4 alert whose consecutive_counts_missing is the counter before plus
\* one, larger than that of every alert given for X so far since the counter
\* was last 0; a count of X at the marking location and a new damaged + ADD
\* marking of X set the counter to 0 and give no rule-4 alert.
C38_AlertKeepsCounting ==
    /\ Single =>
           \A k \in ByRule(call.returned, 4) :
               /\ call.returned[k].epc \in DOMAIN detectors.r4.damaged_items
               /\ Misses(detectors, call.returned[k].epc)
                      = call.returned[k].details.consecutive_counts_missing
               /\ Misses(detectors, call.returned[k].epc) >= consecutive_count_threshold
    /\ \A x \in Items :
           (/\ MissOf(TheEvent, x)
            /\ Misses(prev.detectors, x) >= consecutive_count_threshold)
           => /\ Cardinality(ByRule(call.returned, 4)) = 1
              /\ \A k \in ByRule(call.returned, 4) :
                     /\ call.returned[k].epc = x
                     /\ call.returned[k].details.consecutive_counts_missing
                            = Misses(prev.detectors, x) + 1
                     /\ \A i \in ByRule(prev.alerts, 4) :
                            (/\ prev.alerts[i].epc = x
                             /\ \A j \in DOMAIN processed_events :
                                    processed_events[j].id >= prev.alerts[i].event_id
                                    => ~(/\ processed_events[j].epc_list # <<>>
                                         /\ processed_events[j].epc_list[1] = x
                                         /\ \/ is_damaged(processed_events[j])
                                               /\ processed_events[j].action = "ADD"
                                            \/ /\ processed_events[j].action = "OBSERVE"
                                               /\ processed_events[j].biz_location
                                                      = call.returned[k].location))
                            => prev.alerts[i].details.consecutive_counts_missing
                                   < call.returned[k].details.consecutive_counts_missing
    /\ \A x \in Items :
           (/\ Single /\ call.outcome = "returned"
            /\ TheEvent.epc_list # <<>> /\ TheEvent.epc_list[1] = x
            /\ \/ is_damaged(TheEvent) /\ TheEvent.action = "ADD"
               \/ /\ TheEvent.action = "OBSERVE"
                  /\ x \in DOMAIN prev.detectors.r4.damaged_items
                  /\ TheEvent.biz_location # None
                  /\ TheEvent.biz_location = prev.detectors.r4.damaged_items[x].location)
           => /\ Misses(detectors, x) = 0
              /\ ByRule(call.returned, 4) = {}

\* X was marked and missed three times: the second miss gave an alert with a
\* count of 2, the third has given another with a count of 3.
C38_Witness ==
    /\ MissOf(TheEvent, "X")
    /\ Misses(prev.detectors, "X") = 2
    /\ \E i \in ByRule(prev.alerts, 4) :
           prev.alerts[i].details.consecutive_counts_missing = 2
    /\ \E k \in ByRule(call.returned, 4) :
           call.returned[k].details.consecutive_counts_missing = 3
    /\ Misses(detectors, "X") = 3

====
